---- MODULE Spec2Model ----
(***************************************************************************)
(* Terminal capability negotiation and the four-tier environment selection *)
(* of codex-env (ui.go).  One selection call is a sequential process whose *)
(* position is pc; the terminal driver, the process environment and the    *)
(* bytes arriving on standard input are the surroundings.                  *)
(***************************************************************************)
EXTENDS Integers, Sequences, FiniteSets, TLC

VARIABLES
    environments,       \* config.Environments of the running call
    callerList,         \* the list as the caller handed it over
    entry,              \* the function the caller invoked
    stdinIsTerminal,    \* term.IsTerminal(stdin)
    termType,           \* os.Getenv("TERM"), a sequence of characters
    stdoutStat,         \* os.Stdout.Stat() as isHeadlessMode saw it: "err", "chardev", "file"
    environ,            \* the CI marker variables as isHeadlessMode saw them
    termMode,           \* mode of the terminal driver: "cooked" or "raw"
    pc,                 \* position of the call
    tier,               \* tier whose code is running
    tiers,              \* tiers entered by this call, in order
    caps,               \* capabilities probed by selectEnvironmentWithArrows
    termState,          \* the terminalState of the owning tier
    deferred,           \* the tier's two deferred calls are pending
    selectedIndex,      \* selectedIndex of the interactive loop (0-based)
    globalDisplayState, \* process-wide *DisplayState
    globalLineRenderer, \* process-wide *LineRenderer
    result,             \* what the call returned
    keyRead,            \* the interactive loop has read from standard input
    lineReads,          \* ReadString calls made by regularInput
    prompts,            \* "Enter number" prompts written
    out,                \* kinds of text written to standard output
    warned,             \* restore warning written to standard error
    restoreCalls,       \* term.Restore calls issued through termState
    lastInput,          \* outcome of the latest read from standard input
    formatter,          \* the DisplayFormatter built last, with its layout
    formatted,          \* the latest text the formatter produced, with its input
    written,            \* what the latest render cycle wrote to the terminal
    config,             \* config.Environments of the Config being edited
    configErr           \* error returned by the latest edit of config

vars == <<environments, callerList, entry, stdinIsTerminal, termType,
          stdoutStat, environ, termMode, pc, tier,
          tiers, caps, termState, deferred, selectedIndex,
          globalDisplayState, globalLineRenderer, result, keyRead, lineReads,
          prompts, out, warned, restoreCalls, lastInput, formatter, formatted,
          written, config, configErr>>

envVars == <<stdinIsTerminal, termType>>

formatVars == <<formatter, formatted>>

renderVars == <<written>>

configVars == <<config, configErr>>

(***************************************************************************)
(* Bounds of the model.                                                    *)
(***************************************************************************)
MaxCount == 3       \* longest profile list
MaxLineLen == 2     \* characters of a typed line, newline excluded
MaxEnvSet == 1      \* CI marker variables set at once
MaxRestoreCalls == 3    \* term.Restore calls one handle is followed for
MaxWidth == 80      \* widest window the formatter is given
MaxTextLen == 12    \* longest name or model handed to the formatter
MaxDomainLen == 4   \* longest host part of a URL handed to the formatter
MaxNames == 2       \* valid environment names offered to a Config

(***************************************************************************)
(* Program constants.                                                      *)
(***************************************************************************)
DefaultWidth == 80
DefaultHeight == 24
EllipsisLen == 3
FullHeaderLen == 72     \* bytes of the tier-1 header (arrows are 3 bytes each)
BasicHeaderLen == 65    \* bytes of the tier-2 header
KeyLF == 10
KeyCR == 13
KeyEsc == 27
KeyCtrlC == 3
KeyBracket == 91
KeyA == 65
KeyB == 66
KeyC == 67
KeyD == 68
KeyLowerA == 97
MaxNameLen == 50
MaxModelLen == 200

AllProfiles == <<"dev", "staging", "prod", "canary", "local">>
Profiles == {AllProfiles[i] : i \in 1..Len(AllProfiles)}

ciVars == <<"CI", "CONTINUOUS_INTEGRATION", "GITHUB_ACTIONS", "GITLAB_CI", "JENKINS_URL">>
CINames == {ciVars[i] : i \in 1..Len(ciVars)}

TermTypes == { <<>>, <<"d","u","m","b">>, <<"v","t","5","2">>, <<"x","t","e","r","m">> }

Modes == {"cooked", "raw"}

\* Window sizes term.GetSize may report, or "err" when the query fails.
Sizes == { [w |-> 80, h |-> 24], [w |-> 2, h |-> 24] }
SizeResults == Sizes \cup { [w |-> -1, h |-> -1] }
GetSizeFailed(sz) == sz.w = -1

\* Chunks one os.Stdin.Read may deliver into the 10-byte buffer.
Chunks == { <<>>, <<KeyLF>>, <<KeyCR>>, <<KeyEsc>>, <<KeyCtrlC>>, <<KeyLowerA>>,
            <<KeyEsc, KeyBracket, KeyA>>, <<KeyEsc, KeyBracket, KeyB>>,
            <<KeyEsc, KeyBracket, KeyC>>, <<KeyEsc, KeyBracket, KeyD>>,
            <<KeyEsc, KeyBracket>>, <<KeyEsc, KeyBracket, KeyLowerA>>,
            <<KeyEsc, KeyBracket, KeyA, KeyLF>> }

\* Characters of a typed line.
LineChars == {"0", "1", "2", "4", "-", " ", "x"}
RECURSIVE SeqsUpTo(_, _)
SeqsUpTo(S, n) ==
    IF n = 0 THEN { <<>> }
    ELSE LET shorter == SeqsUpTo(S, n - 1)
         IN  shorter \cup { Append(s, c) : s \in shorter, c \in S }
Lines == SeqsUpTo(LineChars, MaxLineLen)

NoResult == [kind |-> "none", env |-> "", err |-> ""]
Selected(env) == [kind |-> "profile", env |-> env, err |-> ""]
Failed(err) == [kind |-> "error", env |-> "", err |-> err]
Panicked == [kind |-> "panic", env |-> "", err |-> "slice bounds out of range"]

NoInput == [kind |-> "none", bytes |-> <<>>]

NilFormatter ==
    [alloc |-> FALSE, Width |-> 0, Height |-> 0, SupportsANSI |-> FALSE, ContentWidth |-> 0,
     TruncationLimit |-> 0, nameWidth |-> 0, urlWidth |-> 0, modelWidth |-> 0]

\* A render cycle that wrote nothing: no clearScreen, no line.
NoWritten == [clears |-> 0, lines |-> 0]

NoFormatted == [fn |-> "none", prefix |-> <<>>, text |-> <<>>, result |-> <<>>, truncated |-> FALSE]

(***************************************************************************)
(* The terminal driver (golang.org/x/term as ui.go uses it).               *)
(***************************************************************************)
\* term.MakeRaw: saves the current mode and switches to raw, or fails.
MakeRaw(mode, fails) ==
    IF fails THEN [ok |-> FALSE, oldState |-> "nil", mode |-> mode]
    ELSE [ok |-> TRUE, oldState |-> mode, mode |-> "raw"]

\* term.Restore: puts the saved mode back, or fails and changes nothing.
Restore(mode, oldState, fails) ==
    IF fails THEN [ok |-> FALSE, mode |-> mode]
    ELSE [ok |-> TRUE, mode |-> oldState]

NoTermState == [oldState |-> "nil", restored |-> FALSE]

\* A variant of restore that does not look at the restored flag.
restoreIgnoresFlag(ts, mode, fails) ==
    IF ts.oldState = "nil"
    THEN [ts |-> ts, mode |-> mode, err |-> FALSE, called |-> FALSE]
    ELSE LET r == Restore(mode, ts.oldState, fails)
         IN  [ts |-> [ts EXCEPT !.restored = TRUE], mode |-> r.mode, err |-> ~r.ok,
              called |-> TRUE]

\* terminalState.restore
restore(ts, mode, fails) ==
    IF ts.restored \/ ts.oldState = "nil"
    THEN [ts |-> ts, mode |-> mode, err |-> FALSE, called |-> FALSE]
    ELSE LET r == Restore(mode, ts.oldState, fails)
         IN  [ts |-> [ts EXCEPT !.restored = TRUE], mode |-> r.mode, err |-> ~r.ok,
              called |-> TRUE]

\* terminalState.ensureRestore: a failure becomes a warning, never an error.
ensureRestore(ts, mode, fails) ==
    LET r == restore(ts, mode, fails)
    IN  [ts |-> r.ts, mode |-> r.mode, warned |-> r.err, called |-> r.called]

(***************************************************************************)
(* Capability probing.                                                     *)
(***************************************************************************)
HasPrefix(s, prefix) ==
    Len(s) >= Len(prefix) /\ SubSeq(s, 1, Len(prefix)) = prefix

NoCaps == [IsTerminal |-> FALSE, SupportsRaw |-> FALSE, SupportsANSI |-> FALSE,
           SupportsCursor |-> FALSE, Width |-> DefaultWidth, Height |-> DefaultHeight]

\* A probe that leaves the terminal cooked, whatever mode it found.
detectTerminalCapabilitiesResetsMode(isTerminal, term, mode, mkFails, rsFails, size) ==
    LET ansi == term # <<>> /\ term # <<"d","u","m","b">> /\ ~HasPrefix(term, <<"v","t","5">>)
        mk == MakeRaw(mode, mkFails)
        rs == Restore(mk.mode, "cooked", rsFails)
        sized == isTerminal /\ ~GetSizeFailed(size)
    IN  [caps |-> [IsTerminal |-> isTerminal,
                   SupportsRaw |-> isTerminal /\ mk.ok /\ rs.ok,
                   SupportsANSI |-> ansi,
                   SupportsCursor |-> ansi,
                   Width |-> IF sized THEN size.w ELSE DefaultWidth,
                   Height |-> IF sized THEN size.h ELSE DefaultHeight],
         mode |-> IF ~isTerminal THEN mode
                  ELSE IF mk.ok THEN rs.mode ELSE mode]

\* detectTerminalCapabilities: the capabilities, and the mode it leaves behind.
detectTerminalCapabilities(isTerminal, term, mode, mkFails, rsFails, size) ==
    LET ansi == term # <<>> /\ term # <<"d","u","m","b">> /\ ~HasPrefix(term, <<"v","t","5">>)
        mk == MakeRaw(mode, mkFails)
        rs == Restore(mk.mode, mk.oldState, rsFails)
        sized == isTerminal /\ ~GetSizeFailed(size)
    IN  [caps |-> [IsTerminal |-> isTerminal,
                   SupportsRaw |-> isTerminal /\ mk.ok /\ rs.ok,
                   SupportsANSI |-> ansi,
                   SupportsCursor |-> ansi,
                   Width |-> IF sized THEN size.w ELSE DefaultWidth,
                   Height |-> IF sized THEN size.h ELSE DefaultHeight],
         mode |-> IF ~isTerminal THEN mode
                  ELSE IF mk.ok THEN rs.mode ELSE mode]

\* isHeadlessMode
isHeadlessMode(stat, env) ==
    IF stat # "err" THEN stat # "chardev"
    ELSE \E i \in 1..Len(ciVars) : env[ciVars[i]] # ""

\* A variant of the tier choice that ignores ANSI support.
TierForIgnoresANSI(c) ==
    IF ~c.IsTerminal THEN "Headless"
    ELSE IF c.SupportsRaw THEN "FullInteractive"
    ELSE "NumberedFallback"

\* The tier chosen by selectEnvironmentWithArrows for at least two profiles.
TierFor(c) ==
    IF ~c.IsTerminal THEN "Headless"
    ELSE IF c.SupportsRaw /\ c.SupportsANSI /\ c.SupportsCursor THEN "FullInteractive"
    ELSE IF c.SupportsRaw THEN "BasicInteractive"
    ELSE "NumberedFallback"

(***************************************************************************)
(* Key classification and index arithmetic of the interactive loop.        *)
(***************************************************************************)
\* A variant of the classifier that hands a carriage return on as it came.
parseKeyInputKeepsCR(input) ==
    IF Len(input) = 0 THEN [arrow |-> "ArrowNone", char |-> 0, err |-> TRUE]
    ELSE IF Len(input) = 1 THEN [arrow |-> "ArrowNone", char |-> input[1], err |-> FALSE]
    ELSE IF Len(input) >= 3 /\ input[1] = KeyEsc /\ input[2] = KeyBracket
            /\ input[3] \in {KeyA, KeyB, KeyC, KeyD}
    THEN [arrow |-> CASE input[3] = KeyA -> "ArrowUp"
                      [] input[3] = KeyB -> "ArrowDown"
                      [] input[3] = KeyC -> "ArrowRight"
                      [] input[3] = KeyD -> "ArrowLeft",
          char |-> 0, err |-> FALSE]
    ELSE [arrow |-> "ArrowNone", char |-> 0, err |-> TRUE]

\* parseKeyInput: arrow, char (0 when none) and whether an error is returned.
parseKeyInput(input) ==
    IF Len(input) = 0 THEN [arrow |-> "ArrowNone", char |-> 0, err |-> TRUE]
    ELSE IF Len(input) = 1 THEN
        IF input[1] \in {KeyLF, KeyCR}
        THEN [arrow |-> "ArrowNone", char |-> KeyLF, err |-> FALSE]
        ELSE [arrow |-> "ArrowNone", char |-> input[1], err |-> FALSE]
    ELSE IF Len(input) >= 3 /\ input[1] = KeyEsc /\ input[2] = KeyBracket
            /\ input[3] \in {KeyA, KeyB, KeyC, KeyD}
    THEN [arrow |-> CASE input[3] = KeyA -> "ArrowUp"
                      [] input[3] = KeyB -> "ArrowDown"
                      [] input[3] = KeyC -> "ArrowRight"
                      [] input[3] = KeyD -> "ArrowLeft",
          char |-> 0, err |-> FALSE]
    ELSE [arrow |-> "ArrowNone", char |-> 0, err |-> TRUE]

\* A variant of the index update that clamps at the ends.
MoveSelectionClamped(arrow, index, n) ==
    CASE arrow = "ArrowUp" -> IF index = 0 THEN 0 ELSE index - 1
      [] arrow = "ArrowDown" -> IF index = n - 1 THEN index ELSE index + 1
      [] OTHER -> index

\* The switch on arrow in the loops: the index after one key.
MoveSelection(arrow, index, n) ==
    CASE arrow = "ArrowUp" -> (index - 1 + n) % n
      [] arrow = "ArrowDown" -> (index + 1) % n
      [] OTHER -> index

\* A variant of the key outcome that confirms the first profile.
KeyOutcomeFirst(key, index, envs) ==
    IF key.arrow = "ArrowNone" /\ key.char = KeyLF THEN Selected(envs[1])
    ELSE IF key.arrow = "ArrowNone" /\ key.char \in {KeyEsc, KeyCtrlC}
    THEN Failed("selection cancelled")
    ELSE NoResult

\* A variant of the key outcome that also cancels on an unused letter.
KeyOutcomeCancelsOnLetter(key, index, envs) ==
    IF key.arrow = "ArrowNone" /\ key.char = KeyLF THEN Selected(envs[index + 1])
    ELSE IF key.arrow = "ArrowNone" /\ key.char \in {KeyEsc, KeyCtrlC, KeyLowerA}
    THEN Failed("selection cancelled")
    ELSE NoResult

\* The switch on char in the loops: what a key makes the loop return, if anything.
KeyOutcome(key, index, envs) ==
    IF key.arrow = "ArrowNone" /\ key.char = KeyLF THEN Selected(envs[index + 1])
    ELSE IF key.arrow = "ArrowNone" /\ key.char \in {KeyEsc, KeyCtrlC}
    THEN Failed("selection cancelled")
    ELSE NoResult

(***************************************************************************)
(* Process-wide render state.  A rendered line is kept as the triple of    *)
(* the arguments formatSingleLine derives it from (prefix, profile and     *)
(* layout width); the header line stands alone.                            *)
(***************************************************************************)
NilDisplayState ==
    [alloc |-> FALSE, currentLines |-> <<>>, terminalWidth |-> 0, terminalHeight |-> 0,
     lastSelection |-> -1, currentSelection |-> 0, initialized |-> FALSE,
     contentChanged |-> FALSE, selectionChanged |-> FALSE]

NilLineRenderer == [alloc |-> FALSE, useANSI |-> FALSE, width |-> 0]

\* initializeDisplayState
initializeDisplayState(c) ==
    [alloc |-> TRUE, currentLines |-> <<>>, terminalWidth |-> c.Width,
     terminalHeight |-> c.Height, lastSelection |-> -1, currentSelection |-> 0,
     initialized |-> TRUE, contentChanged |-> TRUE, selectionChanged |-> FALSE]

\* UpdateContent with selectionChanged set whenever the index moved.
UpdateContentBothFlags(ds, lines, selection) ==
    IF ~ds.initialized THEN ds
    ELSE LET contentChanged ==
                 \/ Len(lines) # Len(ds.currentLines)
                 \/ \E i \in 1..Len(lines) : lines[i] # ds.currentLines[i]
             selectionChanged == selection # ds.currentSelection
         IN  [ds EXCEPT !.currentLines = lines,
                        !.lastSelection = ds.currentSelection,
                        !.currentSelection = selection,
                        !.contentChanged = contentChanged,
                        !.selectionChanged = selectionChanged]

\* DisplayState.UpdateContent
UpdateContent(ds, lines, selection) ==
    IF ~ds.initialized THEN ds
    ELSE LET contentChanged ==
                 \/ Len(lines) # Len(ds.currentLines)
                 \/ \E i \in 1..Len(lines) : lines[i] # ds.currentLines[i]
             selectionChanged == selection # ds.currentSelection /\ ~contentChanged
         IN  [ds EXCEPT !.currentLines = lines,
                        !.lastSelection = ds.currentSelection,
                        !.currentSelection = selection,
                        !.contentChanged = contentChanged,
                        !.selectionChanged = selectionChanged]

\* DisplayState.ClearDisplay
ClearDisplay(ds) ==
    IF ~ds.initialized THEN ds
    ELSE [ds EXCEPT !.currentLines = <<>>, !.lastSelection = -1,
                    !.currentSelection = 0, !.contentChanged = TRUE,
                    !.selectionChanged = FALSE]

\* A cleanup that empties the display state but keeps both globals.
cleanupDisplayStateKeepsGlobals(ds, lr) ==
    [ds |-> ClearDisplay(ds), lr |-> lr]

\* cleanupDisplayState: both globals are dropped.
cleanupDisplayState(ds, lr) ==
    IF ds.alloc THEN [ds |-> NilDisplayState, lr |-> NilLineRenderer]
    ELSE [ds |-> ds, lr |-> lr]

\* TextPositioner.OverwriteLine slices content[:width-3]: a negative bound panics.
OverwriteLinePanics(contentLen, width) ==
    contentLen > width /\ width - EllipsisLen < 0

HeaderLen(useANSI) == IF useANSI THEN FullHeaderLen ELSE BasicHeaderLen

\* A marker that is kept out of the line's text.
MarkerOutsideLine(isSelected, useANSI) == "  "

\* The selection marker RenderMenu puts before a profile.
Marker(isSelected, useANSI) ==
    IF ~isSelected THEN "  " ELSE IF useANSI THEN "> " ELSE "* "

\* The lines RenderMenu builds: the header, then one line per profile.
MenuLines(envs, selected, header, useANSI, layoutWidth) ==
    (IF header # "" THEN <<<<header, "", 0>>>> ELSE <<>>) \o
    [i \in 1..Len(envs) |-> <<Marker(i - 1 = selected, useANSI), envs[i], layoutWidth>>]

\* The probe as the running process performs it now.
Probe(mode, mkFails, rsFails, size) ==
    detectTerminalCapabilities(stdinIsTerminal, termType, mode, mkFails, rsFails, size)

\* RenderMenu with a selection-only path that writes nothing.
RenderMenuContentOnly(ds, lr, envs, selected, header, mode0, mkFails, rsFails, szLayout) ==
    LET pLayout == Probe(mode0, mkFails, rsFails, szLayout)
        lines == MenuLines(envs, selected, header, lr.useANSI, pLayout.caps.Width)
        ds3 == UpdateContent(ds, lines, selected)
        repaint == ds3.contentChanged
        pRepaint == Probe(pLayout.mode, mkFails, rsFails, szLayout)
        panic == repaint /\ OverwriteLinePanics(HeaderLen(lr.useANSI), lr.width)
    IN  IF ~ds.initialized
        THEN [ds |-> ds, mode |-> mode0, repaint |-> FALSE, panic |-> FALSE,
              clears |-> 0, printed |-> 0]
        ELSE [ds |-> ds3,
              mode |-> IF repaint THEN pRepaint.mode ELSE pLayout.mode,
              repaint |-> repaint,
              panic |-> panic,
              clears |-> IF repaint THEN 1 ELSE 0,
              printed |-> IF repaint /\ ~panic THEN Len(ds3.currentLines) ELSE 0]

\* LineRenderer.RenderMenu with renderFullContent and renderSelectionChange:
\* the display state, the terminal mode the probes leave, what the cycle wrote
\* and whether OverwriteLine panicked.  Both render paths clear the screen
\* and print every stored line.
RenderMenu(ds, lr, envs, selected, header, mode0, mkFails, rsFails, szLayout) ==
    LET pLayout == Probe(mode0, mkFails, rsFails, szLayout)
        lines == MenuLines(envs, selected, header, lr.useANSI, pLayout.caps.Width)
        ds3 == UpdateContent(ds, lines, selected)
        repaint == ds3.contentChanged \/ ds3.selectionChanged
        pRepaint == Probe(pLayout.mode, mkFails, rsFails, szLayout)
        panic == repaint /\ OverwriteLinePanics(HeaderLen(lr.useANSI), lr.width)
    IN  IF ~ds.initialized
        THEN [ds |-> ds, mode |-> mode0, repaint |-> FALSE, panic |-> FALSE,
              clears |-> 0, printed |-> 0]
        ELSE [ds |-> ds3,
              mode |-> IF repaint THEN pRepaint.mode ELSE pLayout.mode,
              repaint |-> repaint,
              panic |-> panic,
              clears |-> IF repaint THEN 1 ELSE 0,
              printed |-> IF repaint /\ ~panic THEN Len(ds3.currentLines) ELSE 0]

\* renderMenuStatefully: the globals are built on first use (with a
\* clearScreen), resized, and handed to RenderMenu.
\* The probes of one render meet the same driver (mkFails, rsFails); the sizes
\* that reach the state are those read for the positioner and for the layout.
renderMenuStatefully(ds0, lr0, envs, selected, header, useANSI, mode0, mkFails, rsFails, szMenu, szLayout) ==
    LET pInit == Probe(mode0, mkFails, rsFails, szMenu)
        pClear == Probe(pInit.mode, mkFails, rsFails, szMenu)
        fresh == ~ds0.alloc
        ds1 == IF fresh THEN initializeDisplayState(pInit.caps) ELSE ds0
        lr1 == IF fresh THEN [alloc |-> TRUE, useANSI |-> useANSI, width |-> ds1.terminalWidth]
               ELSE lr0
        mode1 == IF fresh THEN pClear.mode ELSE mode0
        pMenu == Probe(mode1, mkFails, rsFails, szMenu)
        ds2 == [ds1 EXCEPT !.terminalWidth = pMenu.caps.Width,
                           !.terminalHeight = pMenu.caps.Height]
        lr2 == [lr1 EXCEPT !.width = pMenu.caps.Width]
        m == RenderMenu(ds2, lr2, envs, selected, header, pMenu.mode, mkFails, rsFails, szLayout)
    IN  [ds |-> m.ds, lr |-> lr2, mode |-> m.mode, repaint |-> m.repaint, panic |-> m.panic,
         clears |-> (IF fresh THEN 1 ELSE 0) + m.clears, printed |-> m.printed]

(***************************************************************************)
(* Numbered selection: strings.TrimSpace and strconv.Atoi on a typed line. *)
(***************************************************************************)
IsSpace(c) == c \in {" ", "\t", "\n", "\r"}
Digits == <<"0", "1", "2", "3", "4", "5", "6", "7", "8", "9">>
IsDigit(c) == \E d \in 1..Len(Digits) : Digits[d] = c
DigitValue(c) == (CHOOSE d \in 1..Len(Digits) : Digits[d] = c) - 1

RECURSIVE TrimLeft(_)
TrimLeft(s) == IF s # <<>> /\ IsSpace(Head(s)) THEN TrimLeft(Tail(s)) ELSE s
RECURSIVE TrimRight(_)
TrimRight(s) ==
    IF s # <<>> /\ IsSpace(s[Len(s)]) THEN TrimRight(SubSeq(s, 1, Len(s) - 1)) ELSE s
TrimSpace(s) == TrimRight(TrimLeft(s))

RECURSIVE DecimalValue(_)
DecimalValue(s) ==
    IF s = <<>> THEN 0
    ELSE 10 * DecimalValue(SubSeq(s, 1, Len(s) - 1)) + DigitValue(s[Len(s)])

\* strconv.Atoi: an optional sign, then one or more decimal digits.
Atoi(s) ==
    LET signed == s # <<>> /\ s[1] \in {"+", "-"}
        body == IF signed THEN Tail(s) ELSE s
    IN  IF body = <<>> \/ \E i \in 1..Len(body) : ~IsDigit(body[i])
        THEN [ok |-> FALSE, value |-> 0]
        ELSE [ok |-> TRUE,
              value |-> IF signed /\ s[1] = "-" THEN 0 - DecimalValue(body)
                        ELSE DecimalValue(body)]

\* A variant of the validation that accepts count + 1.
ValidateChoiceOffByOne(input, envs) ==
    LET a == Atoi(input)
    IN  IF ~a.ok THEN Failed("invalid selection - must be a number")
        ELSE IF a.value < 1 \/ a.value > Len(envs) + 1
        THEN Failed("invalid selection - must be between 1 and count")
        ELSE Selected(envs[IF a.value > Len(envs) THEN Len(envs) ELSE a.value])

\* selectEnvironmentOriginal after the line was read: parse and range check.
ValidateChoice(input, envs) ==
    LET a == Atoi(input)
    IN  IF ~a.ok THEN Failed("invalid selection - must be a number")
        ELSE IF a.value < 1 \/ a.value > Len(envs)
        THEN Failed("invalid selection - must be between 1 and count")
        ELSE Selected(envs[a.value])

(***************************************************************************)
(* The selection call.                                                     *)
(***************************************************************************)
Entries == {"selectEnvironmentWithArrows", "fallbackToNumberedSelection"}

NoMarkers == [v \in CINames |-> ""]
EnvChoices ==
    { e \in [CINames -> {"", "true"}] : Cardinality({v \in CINames : e[v] # ""}) <= MaxEnvSet }
StatResults == {"err", "chardev", "file"}

ProfileLists == { SubSeq(AllProfiles, 1, n) : n \in 0..MaxCount }

Init ==
    /\ environments \in ProfileLists
    /\ callerList = environments
    /\ entry \in Entries
    /\ stdinIsTerminal \in BOOLEAN
    /\ termType \in TermTypes
    /\ stdoutStat = "unread"
    /\ environ = NoMarkers
    /\ termMode \in Modes
    /\ pc = "idle"
    /\ tier = "none"
    /\ tiers = <<>>
    /\ caps = NoCaps
    /\ termState = NoTermState
    /\ deferred = FALSE
    /\ selectedIndex = 0
    /\ globalDisplayState = NilDisplayState
    /\ globalLineRenderer = NilLineRenderer
    /\ result = NoResult
    /\ keyRead = FALSE
    /\ lineReads = 0
    /\ prompts = 0
    /\ out = {}
    /\ warned = FALSE
    /\ restoreCalls = 0
    /\ lastInput = NoInput
    /\ formatter = NilFormatter
    /\ formatted = NoFormatted
    /\ written = NoWritten
    /\ config = <<>>
    /\ configErr = "none"

\* A variant of the length checks without the single-profile return.
EarlyReturnEmptyOnly(envs) ==
    IF Len(envs) = 0 THEN Failed("no environments configured") ELSE NoResult

\* The length checks that open selectEnvironmentWithArrows: what they return, if anything.
EarlyReturn(envs) ==
    IF Len(envs) = 0 THEN Failed("no environments configured")
    ELSE IF Len(envs) = 1 THEN Selected(envs[1])
    ELSE NoResult

\* A variant of the checks of selectEnvironmentOriginal without the empty-list error.
EarlyReturnOriginalSingleOnly(envs) ==
    IF Len(envs) = 1 THEN Selected(envs[1]) ELSE NoResult

\* The same two checks at the head of selectEnvironmentOriginal.
EarlyReturnOriginal(envs) ==
    IF Len(envs) = 0 THEN Failed("no environments configured")
    ELSE IF Len(envs) = 1 THEN Selected(envs[1])
    ELSE NoResult

\* A read error that goes round the loop again.
ReadErrorTargetRetriesLoop(name) == "render"

\* A variant of the read-error handling that steps down one tier only.
ReadErrorTargetOneTier(name) ==
    IF name = "FullInteractive" THEN "basic" ELSE "numbered"

\* A variant of the read-error handling that retries the richer tier.
ReadErrorTargetRetriesFull(name) ==
    IF name = "BasicInteractive" THEN "full" ELSE "numbered"

\* Where a loop goes when os.Stdin.Read fails: fallbackToNumberedSelection.
ReadErrorTarget(name) == "numbered"

\* A variant of the deferred calls that leaves the terminal alone.
RunDeferredNoRestore(pending, ts, mode, ds, lr, fails) ==
    LET c == cleanupDisplayState(ds, lr)
    IN  IF pending THEN [ts |-> ts, mode |-> mode, warned |-> FALSE, called |-> FALSE,
                         ds |-> c.ds, lr |-> c.lr]
        ELSE [ts |-> ts, mode |-> mode, warned |-> FALSE, called |-> FALSE,
              ds |-> ds, lr |-> lr]

\* The deferred calls of a tier, run last in first out when its function
\* returns or unwinds: cleanupDisplayState, then termState.ensureRestore.
RunDeferred(pending, ts, mode, ds, lr, fails) ==
    LET c == cleanupDisplayState(ds, lr)
        r == ensureRestore(ts, mode, fails)
    IN  IF pending THEN [ts |-> r.ts, mode |-> r.mode, warned |-> r.warned, called |-> r.called,
                         ds |-> c.ds, lr |-> c.lr]
        ELSE [ts |-> ts, mode |-> mode, warned |-> FALSE, called |-> FALSE,
              ds |-> ds, lr |-> lr]

\* A variant of the return that turns a failed restore into the call's error.
FinishFailsOnRestoreError(res, mode, ds, lr, rsFails) ==
    LET d == RunDeferred(deferred, termState, mode, ds, lr, rsFails)
    IN  /\ result' = IF d.warned THEN Failed("failed to restore terminal") ELSE res
        /\ pc' = "returned"
        /\ termState' = d.ts
        /\ termMode' = d.mode
        /\ warned' = d.warned
        /\ restoreCalls' = restoreCalls + (IF d.called THEN 1 ELSE 0)
        /\ globalDisplayState' = d.ds
        /\ globalLineRenderer' = d.lr
        /\ deferred' = FALSE

\* The call returns res (or unwinds): pending deferred calls run first, and
\* term.Restore fails or not as rsFails says.
Finish(res, mode, ds, lr, rsFails) ==
    LET d == RunDeferred(deferred, termState, mode, ds, lr, rsFails)
    IN  /\ result' = res
        /\ pc' = "returned"
        /\ termState' = d.ts
        /\ termMode' = d.mode
        /\ warned' = d.warned
        /\ restoreCalls' = restoreCalls + (IF d.called THEN 1 ELSE 0)
        /\ globalDisplayState' = d.ds
        /\ globalLineRenderer' = d.lr
        /\ deferred' = FALSE

\* Outcomes of term.Restore in the deferred calls: none is pending, none is drawn.
RestoreOutcomes == IF deferred THEN BOOLEAN ELSE {FALSE}

\* selectEnvironmentWithArrows: the two length checks, the probe, the tier choice.
selectEnvironmentWithArrows ==
    /\ pc = "idle"
    /\ entry = "selectEnvironmentWithArrows"
    /\ UNCHANGED <<environments, callerList, entry, envVars, formatVars, configVars, renderVars,
                   selectedIndex, keyRead, lineReads, prompts, lastInput>>
    /\ \/ /\ EarlyReturn(environments) # NoResult
          /\ Finish(EarlyReturn(environments), termMode,
                    globalDisplayState, globalLineRenderer, FALSE)
          /\ UNCHANGED <<tier, tiers, caps, out, stdoutStat, environ>>
       \/ /\ EarlyReturn(environments) = NoResult
          /\ \E mkFails \in BOOLEAN, rsFails \in BOOLEAN, size \in SizeResults :
                LET p == Probe(termMode, mkFails, rsFails, size)
                    t == TierFor(p.caps)
                IN  /\ caps' = p.caps
                    /\ IF t = "Headless"
                       THEN /\ tier' = "Headless"
                            /\ tiers' = Append(tiers, "Headless")
                            /\ \E stat \in StatResults, env \in EnvChoices :
                                  /\ stdoutStat' = stat
                                  /\ environ' = env
                                  /\ IF isHeadlessMode(stat, env)
                                     THEN /\ out' = out \cup {"headless"}
                                          /\ Finish(Selected(environments[1]), p.mode,
                                                    globalDisplayState, globalLineRenderer, FALSE)
                                     ELSE /\ pc' = "numbered"
                                          /\ termMode' = p.mode
                                          /\ UNCHANGED <<out, result, termState, warned, deferred, restoreCalls,
                                                         globalDisplayState, globalLineRenderer>>
                       ELSE /\ pc' = CASE t = "FullInteractive" -> "full"
                                       [] t = "BasicInteractive" -> "basic"
                                       [] OTHER -> "numbered"
                            /\ termMode' = p.mode
                            /\ UNCHANGED <<tier, tiers, out, result, termState, warned, deferred, restoreCalls,
                                           stdoutStat, environ,
                                           globalDisplayState, globalLineRenderer>>

\* An entry that returns the failure of term.MakeRaw to the caller.
AcquireRawModeReturnsError(at, name, onFailure) ==
    /\ pc = at
    /\ tier' = name
    /\ tiers' = Append(tiers, name)
    /\ \E mkFails \in BOOLEAN :
          LET mk == MakeRaw(termMode, mkFails)
          IN  IF mk.ok
              THEN /\ termState' = [oldState |-> mk.oldState, restored |-> FALSE]
                   /\ termMode' = mk.mode
                   /\ deferred' = TRUE
                   /\ selectedIndex' = 0
                   /\ pc' = "render"
                   /\ UNCHANGED result
              ELSE /\ pc' = "returned"
                   /\ result' = Failed("failed to enter raw mode")
                   /\ UNCHANGED <<termState, termMode, deferred, selectedIndex>>
    /\ UNCHANGED <<environments, callerList, entry, envVars, formatVars, configVars, renderVars, stdoutStat, environ, caps,
                   globalDisplayState, globalLineRenderer, keyRead, lineReads,
                   prompts, out, warned, restoreCalls, lastInput>>

\* Entry of a tier 1-2 function: term.MakeRaw, then the two defers; failure
\* hands over to the function waiting at onFailure.
AcquireRawMode(at, name, onFailure) ==
    /\ pc = at
    /\ tier' = name
    /\ tiers' = Append(tiers, name)
    /\ \E mkFails \in BOOLEAN :
          LET mk == MakeRaw(termMode, mkFails)
          IN  IF mk.ok
              THEN /\ termState' = [oldState |-> mk.oldState, restored |-> FALSE]
                   /\ termMode' = mk.mode
                   /\ deferred' = TRUE
                   /\ selectedIndex' = 0
                   /\ pc' = "render"
              ELSE /\ pc' = onFailure
                   /\ UNCHANGED <<termState, termMode, deferred, selectedIndex>>
    /\ UNCHANGED <<environments, callerList, entry, envVars, formatVars, configVars, renderVars, stdoutStat, environ, caps,
                   globalDisplayState, globalLineRenderer, result, keyRead, lineReads,
                   prompts, out, warned, restoreCalls, lastInput>>

\* fullInteractiveSelection up to its loop.
fullInteractiveSelection == AcquireRawMode("full", "FullInteractive", "basic")

\* basicInteractiveSelection up to its loop.
basicInteractiveSelection == AcquireRawMode("basic", "BasicInteractive", "numbered")

\* One render of the loop of tier name; OverwriteLine may panic, which unwinds
\* the tier function through its deferred calls.
DisplayMenu(name, header, useANSI) ==
    /\ pc = "render"
    /\ tier = name
    /\ \E mkFails \in BOOLEAN, rsFails \in BOOLEAN,
          szMenu \in SizeResults, szLayout \in SizeResults :
          LET r == renderMenuStatefully(globalDisplayState, globalLineRenderer,
                                        environments, selectedIndex, header, useANSI,
                                        termMode, mkFails, rsFails, szMenu, szLayout)
          IN  /\ out' = IF r.repaint THEN out \cup {"menu"} ELSE out
              /\ written' = [clears |-> r.clears, lines |-> r.printed]
              /\ IF r.panic
                 THEN \E rsFinal \in RestoreOutcomes :
                         Finish(Panicked, r.mode, r.ds, r.lr, rsFinal)
                 ELSE /\ pc' = "read"
                      /\ globalDisplayState' = r.ds
                      /\ globalLineRenderer' = r.lr
                      /\ termMode' = r.mode
                      /\ UNCHANGED <<result, termState, warned, deferred, restoreCalls>>
    /\ UNCHANGED <<environments, callerList, entry, envVars, formatVars, configVars, stdoutStat, environ, tier,
                   tiers, caps, selectedIndex, keyRead, lineReads, prompts, lastInput>>

displayEnvironmentMenu == DisplayMenu("FullInteractive", "full header", TRUE)

displayBasicEnvironmentMenu == DisplayMenu("BasicInteractive", "basic header", FALSE)

\* The rest of one loop iteration of tier name: the blocking read, the key
\* classification and the switch on it.
ReadKey(name) ==
    /\ pc = "read"
    /\ tier = name
    /\ keyRead' = TRUE
    /\ UNCHANGED <<environments, callerList, entry, envVars, formatVars, configVars, renderVars, stdoutStat, environ, tier,
                   tiers, caps, lineReads, prompts, out>>
    /\ \/ /\ lastInput' = [kind |-> "error", bytes |-> <<>>]
          /\ pc' = ReadErrorTarget(name)
          /\ UNCHANGED <<selectedIndex, result, termState, termMode, warned, deferred, restoreCalls,
                         globalDisplayState, globalLineRenderer>>
       \/ \E chunk \in Chunks :
             LET key == parseKeyInput(chunk)
                 res == KeyOutcome(key, selectedIndex, environments)
             IN  /\ lastInput' = [kind |-> "chunk", bytes |-> chunk]
                 /\ IF key.err \/ res = NoResult
                    THEN /\ selectedIndex' =
                                IF key.err THEN selectedIndex
                                ELSE MoveSelection(key.arrow, selectedIndex, Len(environments))
                         /\ pc' = "render"
                         /\ UNCHANGED <<result, termState, termMode, warned, deferred, restoreCalls,
                                        globalDisplayState, globalLineRenderer>>
                    ELSE /\ \E rsFinal \in RestoreOutcomes :
                               Finish(res, termMode, globalDisplayState,
                                      globalLineRenderer, rsFinal)
                         /\ UNCHANGED selectedIndex

fullInteractiveRead == ReadKey("FullInteractive")

basicInteractiveRead == ReadKey("BasicInteractive")

\* What selectEnvironmentOriginal may fail to write to standard output.
WriteFailures == {"none", "menu", "option", "prompt"}

\* fallbackToNumberedSelection and selectEnvironmentOriginal up to the
\* blocking read of regularInput.
fallbackToNumberedSelection ==
    /\ \/ pc = "numbered"
       \/ pc = "idle" /\ entry = "fallbackToNumberedSelection"
    /\ tier' = "NumberedFallback"
    /\ tiers' = Append(tiers, "NumberedFallback")
    /\ UNCHANGED <<environments, callerList, entry, envVars, formatVars, configVars, renderVars, stdoutStat, environ, caps,
                   selectedIndex, keyRead, lineReads, lastInput>>
    /\ \E rsFinal \in RestoreOutcomes :
       \/ /\ EarlyReturnOriginal(environments) # NoResult
          /\ out' = out \cup {"notice"}
          /\ Finish(EarlyReturnOriginal(environments), termMode,
                    globalDisplayState, globalLineRenderer, rsFinal)
          /\ UNCHANGED prompts
       \/ /\ EarlyReturnOriginal(environments) = NoResult
          /\ \E failure \in WriteFailures, mkFails \in BOOLEAN, rsFails \in BOOLEAN,
                size \in SizeResults :
                LET p == Probe(termMode, mkFails, rsFails, size)
                IN  CASE failure = "menu" ->
                           /\ out' = out \cup {"notice"}
                           /\ Finish(Failed("failed to display menu"), termMode,
                                     globalDisplayState, globalLineRenderer, rsFinal)
                           /\ UNCHANGED prompts
                      [] failure = "option" ->
                           /\ out' = out \cup {"notice", "select"}
                           /\ Finish(Failed("failed to display environment option"), p.mode,
                                     globalDisplayState, globalLineRenderer, rsFinal)
                           /\ UNCHANGED prompts
                      [] failure = "prompt" ->
                           /\ out' = out \cup {"notice", "select", "list"}
                           /\ Finish(Failed("environment selection failed: failed to display prompt"),
                                     p.mode, globalDisplayState, globalLineRenderer, rsFinal)
                           /\ UNCHANGED prompts
                      [] OTHER ->
                           /\ out' = out \cup {"notice", "select", "list", "prompt"}
                           /\ prompts' = prompts + 1
                           /\ pc' = "line"
                           /\ termMode' = p.mode
                           /\ UNCHANGED <<result, termState, warned, deferred, restoreCalls,
                                          globalDisplayState, globalLineRenderer>>

\* regularInput's ReadString('\n') and the rest of selectEnvironmentOriginal.
regularInput ==
    /\ pc = "line"
    /\ lineReads' = lineReads + 1
    /\ UNCHANGED <<environments, callerList, entry, envVars, formatVars, configVars, renderVars, stdoutStat, environ, tier,
                   tiers, caps, selectedIndex, keyRead, prompts, out>>
    /\ \E rsFinal \in RestoreOutcomes :
       \/ /\ lastInput' = [kind |-> "error", bytes |-> <<>>]
          /\ Finish(Failed("environment selection failed: failed to read input"),
                    termMode, globalDisplayState, globalLineRenderer, rsFinal)
       \/ \E line \in Lines :
             LET input == TrimSpace(Append(line, "\n"))
             IN  /\ lastInput' = [kind |-> "line", bytes |-> line]
                 /\ Finish(ValidateChoice(input, environments), termMode,
                           globalDisplayState, globalLineRenderer, rsFinal)

\* The caller starts another selection in the same process.
NewCall ==
    /\ pc = "returned"
    /\ pc' = "idle"
    /\ environments' \in ProfileLists
    /\ callerList' = environments'
    /\ entry' \in Entries
    /\ stdoutStat' = "unread"
    /\ environ' = NoMarkers
    /\ tier' = "none"
    /\ tiers' = <<>>
    /\ caps' = NoCaps
    /\ termState' = NoTermState
    /\ selectedIndex' = 0
    /\ result' = NoResult
    /\ keyRead' = FALSE
    /\ lineReads' = 0
    /\ prompts' = 0
    /\ out' = {}
    /\ warned' = FALSE
    /\ restoreCalls' = 0
    /\ lastInput' = NoInput
    /\ UNCHANGED <<envVars, formatVars, configVars, renderVars, termMode, deferred,
                   globalDisplayState, globalLineRenderer>>

Next ==
    \/ selectEnvironmentWithArrows
    \/ fullInteractiveSelection
    \/ basicInteractiveSelection
    \/ displayEnvironmentMenu
    \/ displayBasicEnvironmentMenu
    \/ fullInteractiveRead
    \/ basicInteractiveRead
    \/ fallbackToNumberedSelection
    \/ regularInput
    \/ NewCall

Spec == Init /\ [][Next]_vars

\* The call as a running process: once the numbered menu is entered its code
\* runs on, and its one ReadString returns, with a line or with an error (at
\* end of input at once).  Key reads of the loop may block for ever.
SpecRunning ==
    Spec /\ WF_vars(fallbackToNumberedSelection) /\ WF_vars(regularInput)

(***************************************************************************)
(* A terminalState handle on its own, as TestTerminalState drives it: the  *)
(* handle is built around term.MakeRaw (which may fail and leave no saved  *)
(* state) and then released any number of times, by restore or by          *)
(* ensureRestore, while capability probes go on around it.                 *)
(***************************************************************************)
handleFrame == <<environments, callerList, entry, envVars, formatVars, configVars, renderVars, stdoutStat, environ, tier, tiers,
                 deferred, selectedIndex, globalDisplayState, globalLineRenderer,
                 keyRead, lineReads, prompts, out, lastInput>>

InitTerminalState ==
    /\ environments = <<>>
    /\ callerList = <<>>
    /\ entry = "terminalState"
    /\ stdinIsTerminal \in BOOLEAN
    /\ termType \in TermTypes
    /\ stdoutStat = "unread"
    /\ environ = NoMarkers
    /\ termMode \in Modes
    /\ pc = "handle_new"
    /\ tier = "none"
    /\ tiers = <<>>
    /\ caps = NoCaps
    /\ termState = NoTermState
    /\ deferred = FALSE
    /\ selectedIndex = 0
    /\ globalDisplayState = NilDisplayState
    /\ globalLineRenderer = NilLineRenderer
    /\ result = NoResult
    /\ keyRead = FALSE
    /\ lineReads = 0
    /\ prompts = 0
    /\ out = {}
    /\ warned = FALSE
    /\ restoreCalls = 0
    /\ lastInput = NoInput
    /\ formatter = NilFormatter
    /\ formatted = NoFormatted
    /\ written = NoWritten
    /\ config = <<>>
    /\ configErr = "none"

\* Position of the handle after one more release call.
Released(at) == IF at = "handle_held" THEN "handle_released" ELSE "handle_released_again"

\* termState.oldState, err = term.MakeRaw(fd)
TerminalStateAcquire ==
    /\ pc = "handle_new"
    /\ \E mkFails \in BOOLEAN :
          LET mk == MakeRaw(termMode, mkFails)
          IN  /\ termState' = [oldState |-> mk.oldState, restored |-> FALSE]
              /\ termMode' = mk.mode
    /\ pc' = "handle_held"
    /\ UNCHANGED <<handleFrame, caps, result, warned, restoreCalls>>

\* err := ts.restore()
TerminalStateRestore ==
    /\ pc \in {"handle_held", "handle_released", "handle_released_again"}
    /\ restoreCalls < MaxRestoreCalls
    /\ \E fails \in BOOLEAN :
          LET r == restore(termState, termMode, fails)
          IN  /\ termState' = r.ts
              /\ termMode' = r.mode
              /\ restoreCalls' = restoreCalls + (IF r.called THEN 1 ELSE 0)
              /\ result' = IF r.err THEN Failed("term.Restore failed") ELSE NoResult
    /\ pc' = Released(pc)
    /\ UNCHANGED <<handleFrame, caps, warned>>

\* ts.ensureRestore()
TerminalStateEnsureRestore ==
    /\ pc \in {"handle_held", "handle_released", "handle_released_again"}
    /\ restoreCalls < MaxRestoreCalls
    /\ \E fails \in BOOLEAN :
          LET r == ensureRestore(termState, termMode, fails)
          IN  /\ termState' = r.ts
              /\ termMode' = r.mode
              /\ restoreCalls' = restoreCalls + (IF r.called THEN 1 ELSE 0)
              /\ warned' = (warned \/ r.warned)
    /\ pc' = Released(pc)
    /\ UNCHANGED <<handleFrame, caps, result>>

\* detectTerminalCapabilities running while the handle exists.
TerminalStateProbe ==
    /\ pc \in {"handle_held", "handle_released", "handle_released_again"}
    /\ \E mkFails \in BOOLEAN, rsFails \in BOOLEAN, size \in SizeResults :
          LET p == Probe(termMode, mkFails, rsFails, size)
          IN  /\ caps' = p.caps
              /\ termMode' = p.mode
    /\ UNCHANGED <<handleFrame, pc, termState, result, warned, restoreCalls>>

\* The handle is dropped and another one is built.
TerminalStateNew ==
    /\ pc \in {"handle_held", "handle_released", "handle_released_again"}
    /\ pc' = "handle_new"
    /\ termState' = NoTermState
    /\ caps' = NoCaps
    /\ result' = NoResult
    /\ warned' = FALSE
    /\ restoreCalls' = 0
    /\ UNCHANGED <<handleFrame, termMode>>

NextTerminalState ==
    \/ TerminalStateAcquire
    \/ TerminalStateRestore
    \/ TerminalStateEnsureRestore
    \/ TerminalStateProbe
    \/ TerminalStateNew

SpecTerminalState == InitTerminalState /\ [][NextTerminalState]_vars

(***************************************************************************)
(* Layout and formatting.  A text is a sequence of bytes, one string per   *)
(* byte, so that Len is Go's len.                                          *)
(***************************************************************************)
Max(a, b) == IF a > b THEN a ELSE b

Take(s, n) == SubSeq(s, 1, n)

Ellipsis == <<".", ".", ".">>

\* int(float64(n) * 0.pp): the product truncates to the exact floor for
\* every content width up to 200000.
Percent(n, pp) == (n * pp) \div 100

\* A variant of the layout that always reserves the wide overhead.
detectTerminalLayoutWideOverhead(c) ==
    LET contentWidth == Max(c.Width - 8, 20)
    IN  [Width |-> c.Width, Height |-> c.Height, SupportsANSI |-> c.SupportsANSI,
         ContentWidth |-> contentWidth,
         TruncationLimit |-> Max(contentWidth - 10, 10)]

\* detectTerminalLayout, from the capabilities its probe returned.
detectTerminalLayout(c) ==
    LET uiOverhead == IF c.Width < 40 THEN 4 ELSE 8
        contentWidth == Max(c.Width - uiOverhead, 20)
    IN  [Width |-> c.Width, Height |-> c.Height, SupportsANSI |-> c.SupportsANSI,
         ContentWidth |-> contentWidth,
         TruncationLimit |-> Max(contentWidth - 10, 10)]

\* newDisplayFormatter
newDisplayFormatter(layout) ==
    [alloc |-> TRUE, Width |-> layout.Width, Height |-> layout.Height,
     SupportsANSI |-> layout.SupportsANSI, ContentWidth |-> layout.ContentWidth,
     TruncationLimit |-> layout.TruncationLimit,
     nameWidth |-> Max(Percent(layout.ContentWidth, 40), 8),
     urlWidth |-> Max(Percent(layout.ContentWidth, 45), 10),
     modelWidth |-> Max(Percent(layout.ContentWidth, 15), 6)]

\* A variant of the name truncation that also shortens a name of exactly the width.
smartTruncateNameStrict(df, name) ==
    IF Len(name) < df.nameWidth THEN [text |-> name, truncated |-> FALSE]
    ELSE LET prefixLen == (df.nameWidth - 3) \div 2
             suffixLen == df.nameWidth - 3 - prefixLen
         IN  [text |-> Take(name, prefixLen) \o Ellipsis
                        \o SubSeq(name, Len(name) - suffixLen + 1, Len(name)),
              truncated |-> TRUE]

\* smartTruncateName
smartTruncateName(df, name) ==
    IF Len(name) <= df.nameWidth THEN [text |-> name, truncated |-> FALSE]
    ELSE IF df.nameWidth < 8
    THEN [text |-> Take(name, df.nameWidth - 3) \o Ellipsis, truncated |-> TRUE]
    ELSE LET prefixLen == (df.nameWidth - 3) \div 2
             suffixLen == df.nameWidth - 3 - prefixLen
         IN  [text |-> Take(name, prefixLen) \o Ellipsis
                        \o SubSeq(name, Len(name) - suffixLen + 1, Len(name)),
              truncated |-> TRUE]

\* strings.Index(s, sep): the 1-based place of the first occurrence, 0 when none.
Index(s, sep) ==
    LET places == { i \in 1..(Len(s) - Len(sep) + 1) : SubSeq(s, i, i + Len(sep) - 1) = sep }
    IN  IF places = {} THEN 0 ELSE CHOOSE i \in places : \A j \in places : i <= j

SchemeSep == <<":", "/", "/">>

\* smartTruncateURL
smartTruncateURL(df, url) ==
    IF Len(url) <= df.urlWidth THEN [text |-> url, truncated |-> FALSE]
    ELSE LET at == Index(url, SchemeSep)
             protocol == Take(url, at + 2)
             remaining == SubSeq(url, at + 3, Len(url))
             slash == Index(remaining, <<"/">>)
             domain == IF slash = 0 THEN remaining ELSE Take(remaining, slash - 1)
         IN  IF at # 0 /\ Len(protocol) + Len(domain) <= df.urlWidth - 3
             THEN [text |-> protocol \o domain \o Ellipsis, truncated |-> TRUE]
             ELSE [text |-> Take(url, df.urlWidth - 3) \o Ellipsis, truncated |-> TRUE]

DefaultModel == <<"d", "e", "f", "a", "u", "l", "t">>

\* smartTruncateModel
smartTruncateModel(df, model) ==
    IF model = <<>> THEN [text |-> DefaultModel, truncated |-> FALSE]
    ELSE IF Len(model) <= df.modelWidth THEN [text |-> model, truncated |-> FALSE]
    ELSE [text |-> Take(model, df.modelWidth - 3) \o Ellipsis, truncated |-> TRUE]

\* The field truncation inside formatSingleLine.
Fit(text, space) ==
    IF Len(text) <= space THEN text
    ELSE IF space > 3 THEN Take(text, space - 3) \o Ellipsis
    ELSE Take(text, space)

\* formatSingleLine
formatSingleLine(df, prefix, env) ==
    LET maxContentLen == df.Width - Len(prefix) - 6
        nameSpace == Max(Percent(maxContentLen, 40), 8)
        urlSpace == Max(Percent(maxContentLen, 45), 10)
        modelSpace == Max(maxContentLen - Percent(maxContentLen, 40)
                                        - Percent(maxContentLen, 45), 6)
        model == IF env.Model = <<>> THEN DefaultModel ELSE env.Model
        line == prefix \o Fit(env.Name, nameSpace) \o <<" ", "(">> \o Fit(env.URL, urlSpace)
                       \o <<")", " ", "[">> \o Fit(model, modelSpace) \o <<"]">>
    IN  IF maxContentLen < 20
        THEN prefix \o (IF Len(env.Name) > 10 THEN Take(env.Name, 7) \o Ellipsis ELSE env.Name)
        ELSE IF Len(line) <= df.Width THEN line
        ELSE IF df.Width - 3 > 0 THEN Take(line, df.Width - 3) \o Ellipsis
        ELSE Take(line, df.Width)

(***************************************************************************)
(* The formatter on its own: a layout is detected for whatever window the  *)
(* terminal reports, and the truncators and the line composition are       *)
(* applied to texts.                                                       *)
(***************************************************************************)
Alphabet ==
    <<"a", "b", "c", "d", "e", "f", "g", "h", "i", "j", "k", "l", "m", "n", "o", "p",
      "q", "r", "s", "t", "u", "v", "w", "x", "y", "z">>

Word(n) == Take(Alphabet, n)

Names == { Word(n) : n \in 0..MaxTextLen }

Scheme == <<"h", "t", "t", "p", ":", "/", "/">>

URLs ==
    Names \cup { Scheme \o Word(d) \o path :
                   d \in 0..MaxDomainLen, path \in {<<>>, <<"/">> \o Word(MaxTextLen)} }

Models == Names

\* The prefixes of RenderMenu and of selectEnvironmentOriginal; the arrow
\* glyph takes three bytes.
Prefixes ==
    { <<" ", " ">>, <<"e2", "96", "ba", " ">>, <<"*", " ">> }
        \cup { <<Digits[k + 1], ".", " ">> : k \in 1..MaxCount }

FormatEnvs ==
    [Name : {Word(4), Word(MaxTextLen)},
     URL : {Scheme \o Word(2), Scheme \o Word(MaxDomainLen) \o <<"/">> \o Word(MaxTextLen)},
     Model : {<<>>, Word(MaxTextLen)}]

\* Windows term.GetSize reports to the formatter (0 x 0 for a terminal whose
\* size was never set), or its failure.
FormatSizes ==
    { [w |-> w, h |-> DefaultHeight] : w \in 1..MaxWidth }
        \cup { [w |-> 0, h |-> 0], [w |-> -1, h |-> -1] }

InitFormat ==
    /\ environments = <<>>
    /\ callerList = <<>>
    /\ entry = "DisplayFormatter"
    /\ stdinIsTerminal \in BOOLEAN
    /\ termType \in TermTypes
    /\ stdoutStat = "unread"
    /\ environ = NoMarkers
    /\ termMode = "cooked"
    /\ pc = "format"
    /\ tier = "none"
    /\ tiers = <<>>
    /\ caps = NoCaps
    /\ termState = NoTermState
    /\ deferred = FALSE
    /\ selectedIndex = 0
    /\ globalDisplayState = NilDisplayState
    /\ globalLineRenderer = NilLineRenderer
    /\ result = NoResult
    /\ keyRead = FALSE
    /\ lineReads = 0
    /\ prompts = 0
    /\ out = {}
    /\ warned = FALSE
    /\ restoreCalls = 0
    /\ lastInput = NoInput
    /\ formatter = NilFormatter
    /\ formatted = NoFormatted
    /\ written = NoWritten
    /\ config = <<>>
    /\ configErr = "none"

formatFrame == <<environments, callerList, entry, envVars, configVars, renderVars, stdoutStat, environ, tier, tiers,
                 termState, deferred, selectedIndex, globalDisplayState, globalLineRenderer,
                 result, keyRead, lineReads, prompts, out, warned, restoreCalls, lastInput>>

\* formatter := newDisplayFormatter(detectTerminalLayout())
FormatterNew ==
    /\ pc = "format"
    /\ \E mkFails \in BOOLEAN, rsFails \in BOOLEAN, size \in FormatSizes :
          LET p == Probe(termMode, mkFails, rsFails, size)
          IN  /\ caps' = p.caps
              /\ termMode' = p.mode
              /\ formatter' = newDisplayFormatter(detectTerminalLayout(p.caps))
    /\ UNCHANGED <<formatFrame, pc, formatted>>

\* One truncator applied to text.
Truncate(fn, text, r) ==
    /\ pc = "format"
    /\ formatter.alloc
    /\ formatted' = [fn |-> fn, prefix |-> <<>>, text |-> text, result |-> r.text,
                     truncated |-> r.truncated]
    /\ pc' = "formatted"
    /\ UNCHANGED <<formatFrame, caps, termMode, formatter>>

TruncateName == \E text \in Names : Truncate("name", text, smartTruncateName(formatter, text))

TruncateURL == \E text \in URLs : Truncate("url", text, smartTruncateURL(formatter, text))

TruncateModel == \E text \in Models : Truncate("model", text, smartTruncateModel(formatter, text))

\* line := formatter.formatSingleLine(prefix, env)
FormatLine ==
    /\ pc = "format"
    /\ formatter.alloc
    /\ \E prefix \in Prefixes, env \in FormatEnvs :
          formatted' = [fn |-> "line", prefix |-> prefix, text |-> env.Name,
                        result |-> formatSingleLine(formatter, prefix, env),
                        truncated |-> FALSE]
    /\ pc' = "formatted"
    /\ UNCHANGED <<formatFrame, caps, termMode, formatter>>

\* The caller has written the text out and goes on.
FormatDone ==
    /\ pc = "formatted"
    /\ pc' = "format"
    /\ formatted' = NoFormatted
    /\ UNCHANGED <<formatFrame, caps, termMode, formatter>>

NextFormat ==
    \/ FormatDone
    \/ FormatterNew
    \/ TruncateName
    \/ TruncateURL
    \/ TruncateModel
    \/ FormatLine

SpecFormat == InitFormat /\ [][NextFormat]_vars

(***************************************************************************)
(* A DisplayState with its LineRenderer on their own: the state is         *)
(* initialized once and then updated, cleared and rendered with any lines, *)
(* any selection index (in range or not) and any header, as the exported   *)
(* methods allow.  Standard input is not a terminal here, so the probes    *)
(* inside RenderMenu never reach the driver and report the default size.   *)
(***************************************************************************)
Selections == -1..MaxCount

Headers == {"", "full header"}

\* Line lists a caller may hand to UpdateContent.
DisplayLines(useANSI) ==
    { MenuLines(envs, sel, header, useANSI, DefaultWidth) :
        envs \in ProfileLists, sel \in Selections, header \in Headers }

displayFrame == <<environments, callerList, entry, envVars, formatVars, configVars, stdoutStat,
                  environ, tier, tiers, caps, termState, deferred, selectedIndex, result,
                  keyRead, lineReads, prompts, out, warned, restoreCalls, pc>>

InitDisplayState ==
    /\ environments = <<>>
    /\ callerList = <<>>
    /\ entry = "DisplayState"
    /\ stdinIsTerminal = FALSE
    /\ termType = <<"x","t","e","r","m">>
    /\ stdoutStat = "unread"
    /\ environ = NoMarkers
    /\ termMode = "cooked"
    /\ pc = "display"
    /\ tier = "none"
    /\ tiers = <<>>
    /\ caps = NoCaps
    /\ termState = NoTermState
    /\ deferred = FALSE
    /\ selectedIndex = 0
    /\ globalDisplayState = initializeDisplayState([Width |-> DefaultWidth, Height |-> DefaultHeight])
    /\ \E useANSI \in BOOLEAN :
          globalLineRenderer = [alloc |-> TRUE, useANSI |-> useANSI, width |-> DefaultWidth]
    /\ result = NoResult
    /\ keyRead = FALSE
    /\ lineReads = 0
    /\ prompts = 0
    /\ out = {}
    /\ warned = FALSE
    /\ restoreCalls = 0
    /\ lastInput = NoInput
    /\ formatter = NilFormatter
    /\ formatted = NoFormatted
    /\ written = NoWritten
    /\ config = <<>>
    /\ configErr = "none"

\* state.UpdateContent(lines, selection)
DisplayStateUpdate ==
    /\ pc = "display"
    /\ \E lines \in DisplayLines(globalLineRenderer.useANSI), selection \in Selections :
          /\ globalDisplayState' = UpdateContent(globalDisplayState, lines, selection)
          /\ lastInput' = [kind |-> "update", lines |-> lines, selection |-> selection]
    /\ written' = NoWritten
    /\ UNCHANGED <<displayFrame, termMode, globalLineRenderer>>

\* state.ClearDisplay()
DisplayStateClear ==
    /\ pc = "display"
    /\ globalDisplayState' = ClearDisplay(globalDisplayState)
    /\ lastInput' = [kind |-> "clear"]
    /\ written' = NoWritten
    /\ UNCHANGED <<displayFrame, termMode, globalLineRenderer>>

\* renderer.RenderMenu(environments, selectedIndex, header)
DisplayStateRender ==
    /\ pc = "display"
    /\ \E envs \in ProfileLists, selected \in Selections, header \in Headers :
          LET m == RenderMenu(globalDisplayState, globalLineRenderer, envs, selected, header,
                              termMode, FALSE, FALSE, [w |-> -1, h |-> -1])
          IN  /\ globalDisplayState' = m.ds
              /\ termMode' = m.mode
              /\ written' = [clears |-> m.clears, lines |-> m.printed]
              /\ lastInput' = [kind |-> "render", envs |-> envs, selected |-> selected,
                               header |-> header]
    /\ UNCHANGED <<displayFrame, globalLineRenderer>>

NextDisplayState ==
    \/ DisplayStateUpdate
    \/ DisplayStateClear
    \/ DisplayStateRender

SpecDisplayState == InitDisplayState /\ [][NextDisplayState]_vars

(***************************************************************************)
(* Editing the environment list of a Config (config.go, with the           *)
(* validators of main.go).  Names are sequences of characters; API keys    *)
(* and model names are sequences of code points; a URL is given by what    *)
(* url.Parse makes of it.                                                  *)
(***************************************************************************)
UpperAlphabet ==
    <<"A", "B", "C", "D", "E", "F", "G", "H", "I", "J", "K", "L", "M", "N", "O", "P",
      "Q", "R", "S", "T", "U", "V", "W", "X", "Y", "Z">>

\* The characters of ^[a-zA-Z0-9_-]+$
NameChars ==
    {Alphabet[i] : i \in 1..Len(Alphabet)} \cup {UpperAlphabet[i] : i \in 1..Len(UpperAlphabet)}
        \cup {Digits[i] : i \in 1..Len(Digits)} \cup {"_", "-"}

\* strings.Contains
Contains(s, sub) == Index(s, sub) > 0

\* validateName: nil is "".
validateName(name) ==
    IF name = <<>> THEN "name cannot be empty"
    ELSE IF Len(name) > MaxNameLen THEN "name too long (max 50 characters)"
    ELSE IF \E i \in 1..Len(name) : name[i] \notin NameChars
         THEN "name contains invalid characters"
    ELSE ""

\* validateURL on the outcome of url.Parse.
validateURL(u) ==
    IF u.empty THEN "URL cannot be empty"
    ELSE IF u.parseErr THEN "invalid URL format"
    ELSE IF u.Scheme # "http" /\ u.Scheme # "https" THEN "URL must use http or https scheme"
    ELSE IF u.Host = <<>> THEN "URL must have a valid host"
    ELSE IF u.User \/ Contains(u.Host, <<"@">>) THEN "URL must not include credentials"
    ELSE ""

\* Code points below 32 and 127 are control characters.
IsControl(r) == r < 32 \/ r = 127

\* validateAPIKey
validateAPIKey(apiKey) ==
    IF \E i \in 1..Len(apiKey) : IsControl(apiKey[i])
    THEN "API key contains invalid characters" ELSE ""

\* The substrings validateModel rejects: $(  `  ;  ../  \x
DisallowedInModel == { <<36, 40>>, <<96>>, <<59>>, <<46, 46, 47>>, <<92, 120>> }

\* validateModel
validateModel(model) ==
    IF model = <<>> THEN ""
    ELSE IF \E sub \in DisallowedInModel : Contains(model, sub)
         THEN "model contains disallowed characters"
    ELSE IF \E i \in 1..Len(model) : IsControl(model[i]) THEN "model contains invalid characters"
    ELSE IF Len(model) > MaxModelLen THEN "model name too long"
    ELSE ""

\* validateEnvironment: the first failing field decides.
validateEnvironment(env) ==
    IF validateName(env.Name) # "" THEN "invalid name"
    ELSE IF validateURL(env.URL) # "" THEN "invalid URL"
    ELSE IF validateAPIKey(env.APIKey) # "" THEN "invalid API key"
    ELSE IF validateModel(env.Model) # "" THEN "invalid model"
    ELSE ""

\* findEnvironmentByName: the 0-based index of the first match, or -1.
findEnvironmentByName(envs, name) ==
    LET places == { i \in 1..Len(envs) : envs[i].Name = name }
    IN  IF places = {} THEN [index |-> -1, found |-> FALSE]
        ELSE [index |-> (CHOOSE i \in places : \A j \in places : i <= j) - 1, found |-> TRUE]

\* addEnvironmentToConfig without the duplicate check.
addEnvironmentToConfigNoDuplicateCheck(envs, env) ==
    IF validateEnvironment(env) # ""
    THEN [envs |-> envs, err |-> "environment addition failed"]
    ELSE [envs |-> Append(envs, env), err |-> ""]

\* addEnvironmentToConfig: the list afterwards and the error ("" is nil).
addEnvironmentToConfig(envs, env) ==
    IF validateEnvironment(env) # ""
    THEN [envs |-> envs, err |-> "environment addition failed"]
    ELSE IF findEnvironmentByName(envs, env.Name).found
         THEN [envs |-> envs, err |-> "already exists"]
    ELSE [envs |-> Append(envs, env), err |-> ""]

\* removeEnvironmentFromConfig
removeEnvironmentFromConfig(envs, name) ==
    LET f == findEnvironmentByName(envs, name)
    IN  IF ~f.found THEN [envs |-> envs, err |-> "not found"]
        ELSE [envs |-> SubSeq(envs, 1, f.index) \o SubSeq(envs, f.index + 2, Len(envs)),
              err |-> ""]

GoodURL ==
    [empty |-> FALSE, parseErr |-> FALSE, Scheme |-> "https",
     Host |-> <<"a", "p", "i">>, User |-> FALSE]

BadURLs ==
    { [GoodURL EXCEPT !.empty = TRUE], [GoodURL EXCEPT !.parseErr = TRUE],
      [GoodURL EXCEPT !.Scheme = "ftp"], [GoodURL EXCEPT !.Host = <<>>],
      [GoodURL EXCEPT !.User = TRUE] }

\* "sk"
GoodKey == <<115, 107>>
BadKeys == { <<115, 10>>, <<127>> }

\* "", "gpt"
GoodModels == { <<>>, <<103, 112, 116>> }
BadModels ==
    { <<103>> \o sub : sub \in DisallowedInModel } \cup { <<103, 9>> }
        \cup { [i \in 1..(MaxModelLen + 1) |-> 103] }

ValidNames == { <<c>> : c \in {Alphabet[i] : i \in 1..(MaxNames - 1)} } \cup { <<"A">> }
InvalidNames == { <<>>, <<"a", " ">>, [i \in 1..(MaxNameLen + 1) |-> "a"] }

Environment(name, url, key, model) ==
    [Name |-> name, URL |-> url, APIKey |-> key, Model |-> model]

ValidEnvironments ==
    { Environment(n, GoodURL, GoodKey, m) : n \in ValidNames, m \in GoodModels }

ConfigEnvs ==
    ValidEnvironments
        \cup { Environment(n, GoodURL, GoodKey, <<>>) : n \in InvalidNames }
        \cup { Environment(<<"b">>, u, GoodKey, <<>>) : u \in BadURLs }
        \cup { Environment(<<"b">>, GoodURL, k, <<>>) : k \in BadKeys }
        \cup { Environment(<<"b">>, GoodURL, GoodKey, m) : m \in BadModels }

ConfigNames == { e.Name : e \in ConfigEnvs } \cup { <<"z">> }

configFrame == <<environments, callerList, entry, envVars, formatVars, renderVars, stdoutStat,
                 environ, termMode, tier, tiers, caps, termState, deferred, selectedIndex,
                 globalDisplayState, globalLineRenderer, result, keyRead, lineReads, prompts,
                 out, warned, restoreCalls, pc>>

\* A Config as a caller holds it: empty, or with one environment already in it.
InitConfig ==
    /\ environments = <<>>
    /\ callerList = <<>>
    /\ entry = "Config"
    /\ stdinIsTerminal = FALSE
    /\ termType = <<>>
    /\ stdoutStat = "unread"
    /\ environ = NoMarkers
    /\ termMode = "cooked"
    /\ pc = "config"
    /\ tier = "none"
    /\ tiers = <<>>
    /\ caps = NoCaps
    /\ termState = NoTermState
    /\ deferred = FALSE
    /\ selectedIndex = 0
    /\ globalDisplayState = NilDisplayState
    /\ globalLineRenderer = NilLineRenderer
    /\ result = NoResult
    /\ keyRead = FALSE
    /\ lineReads = 0
    /\ prompts = 0
    /\ out = {}
    /\ warned = FALSE
    /\ restoreCalls = 0
    /\ lastInput = NoInput
    /\ formatter = NilFormatter
    /\ formatted = NoFormatted
    /\ written = NoWritten
    /\ config \in { <<>> } \cup { <<e>> : e \in ConfigEnvs }
    /\ configErr = "none"

\* err := addEnvironmentToConfig(&config, env)
ConfigAdd ==
    /\ pc = "config"
    /\ \E env \in ConfigEnvs :
          LET r == addEnvironmentToConfig(config, env)
          IN  /\ config' = r.envs
              /\ configErr' = r.err
              /\ lastInput' = [kind |-> "add", env |-> env]
    /\ UNCHANGED configFrame

\* err := removeEnvironmentFromConfig(&config, name)
ConfigRemove ==
    /\ pc = "config"
    /\ \E name \in ConfigNames :
          LET r == removeEnvironmentFromConfig(config, name)
          IN  /\ config' = r.envs
              /\ configErr' = r.err
              /\ lastInput' = [kind |-> "remove", name |-> name]
    /\ UNCHANGED configFrame

NextConfig ==
    \/ ConfigAdd
    \/ ConfigRemove

SpecConfig == InitConfig /\ [][NextConfig]_vars

(***************************************************************************)
(* Properties.                                                             *)
(***************************************************************************)
Interactive == {"FullInteractive", "BasicInteractive"}
MenuOutput == {"menu", "select", "list", "prompt"}
UpChunk == <<KeyEsc, KeyBracket, KeyA>>
DownChunk == <<KeyEsc, KeyBracket, KeyB>>
ConfirmChunks == { <<KeyLF>>, <<KeyCR>> }
CancelChunks == { <<KeyEsc>>, <<KeyCtrlC>> }
Cancelled == [kind |-> "error", env |-> "", err |-> "selection cancelled"]
Count == Len(environments)

\* C1: once a tier 1-2 session has acquired raw mode, the call has not
\* returned (by Enter, Escape/Ctrl-C, read-error downgrade or panic) unless
\* the guard was released: restored is set, no deferred call is left, and
\* the terminal is back in the saved mode when the OS restore succeeded.
C1_GuardReleasedOnReturn ==
    (pc = "returned" /\ termState.oldState # "nil") =>
        /\ termState.restored
        /\ ~deferred
        /\ (~warned => termMode = termState.oldState)

C1_Witness ==
    /\ pc = "returned"
    /\ tiers = <<"FullInteractive", "NumberedFallback">>
    /\ termState = [oldState |-> "cooked", restored |-> TRUE]
    /\ termMode = "cooked"
    /\ result.kind = "profile"

C2_IndexInRange ==
    (tier \in Interactive /\ pc \in {"render", "read"}) =>
        /\ Count >= 2
        /\ selectedIndex \in 0..(Count - 1)
        /\ (~keyRead => selectedIndex = 0)

C2_ArrowStep ==
    (pc = "read" /\ pc' = "render") =>
        /\ lastInput'.bytes = UpChunk =>
              /\ selectedIndex' = (selectedIndex - 1 + Count) % Count
              /\ (selectedIndex = 0 => selectedIndex' = Count - 1)
        /\ lastInput'.bytes = DownChunk =>
              /\ selectedIndex' = (selectedIndex + 1) % Count
              /\ (selectedIndex = Count - 1 => selectedIndex' = 0)

\* C2: in both interactive loops selectedIndex starts at 0 and stays within
\* 0..count-1; arrow-up moves it to (selectedIndex - 1 + count) % count and
\* arrow-down to (selectedIndex + 1) % count, wrapping at both ends.
C2_CyclicSelection == []C2_IndexInRange /\ [][C2_ArrowStep]_vars

C2_Witness ==
    /\ pc = "render"
    /\ lastInput = [kind |-> "chunk", bytes |-> UpChunk]
    /\ Count = 3
    /\ selectedIndex = 2

\* C3: a confirm chunk (one byte, LF or CR) read by a tier 1-2 loop ends the
\* call with, and no error, the element of the caller's list at
\* selectedIndex; the list is never modified.
C3_ConfirmReturnsSelected ==
    /\ environments = callerList
    /\ (lastInput.kind = "chunk" /\ lastInput.bytes \in ConfirmChunks) =>
          /\ pc = "returned"
          /\ result = [kind |-> "profile", env |-> callerList[selectedIndex + 1], err |-> ""]

C3_Witness ==
    /\ pc = "returned"
    /\ lastInput = [kind |-> "chunk", bytes |-> <<KeyCR>>]
    /\ selectedIndex = 1
    /\ result.env = "staging"

\* C4: a chunk that is the single byte Escape or Ctrl-C ends the call with
\* the cancellation outcome and no profile, whatever selectedIndex is, and
\* the call is cancelled in no other way.
C4_CancelOnlyByKey ==
    /\ (lastInput.kind = "chunk" /\ lastInput.bytes \in CancelChunks) =>
          (pc = "returned" /\ result = Cancelled)
    /\ result.err = "selection cancelled" =>
          (lastInput.kind = "chunk" /\ lastInput.bytes \in CancelChunks)

C4_Witness ==
    /\ result = Cancelled
    /\ lastInput.bytes = <<KeyCtrlC>>
    /\ selectedIndex = 2

\* The tier the call entered first, or is about to enter.
FirstTier ==
    IF tiers # <<>> THEN tiers[1]
    ELSE CASE pc = "full" -> "FullInteractive"
           [] pc = "basic" -> "BasicInteractive"
           [] pc = "numbered" -> "NumberedFallback"
           [] OTHER -> "none"

C5_FirstTier ==
    /\ (entry = "selectEnvironmentWithArrows" /\ Count >= 2 /\ pc # "idle") =>
          /\ caps.IsTerminal = stdinIsTerminal
          /\ FirstTier = "FullInteractive" <=>
                (caps.IsTerminal /\ caps.SupportsRaw /\ caps.SupportsANSI /\ caps.SupportsCursor)
          /\ FirstTier = "BasicInteractive" <=>
                (caps.IsTerminal /\ caps.SupportsRaw /\ ~caps.SupportsANSI)
          /\ FirstTier = "NumberedFallback" <=> (caps.IsTerminal /\ ~caps.SupportsRaw)
          /\ FirstTier = "Headless" <=> ~caps.IsTerminal
    /\ ~stdinIsTerminal =>
          /\ termState = NoTermState
          /\ pc \notin {"full", "basic", "render", "read"}
          /\ \A i \in 1..Len(tiers) : tiers[i] \notin Interactive

C5_ModeUntouched == ~stdinIsTerminal => termMode' = termMode

\* C5: with two or more profiles the first tier follows from the probed
\* capabilities alone (full: TTY, raw, ANSI and cursor; basic: TTY and raw
\* without ANSI; numbered: TTY without raw; headless: no TTY), and without a
\* TTY no interactive tier is entered and raw mode is never requested.
C5_TierByCapabilities == []C5_FirstTier /\ [][C5_ModeUntouched]_vars

C5_Witness ==
    /\ tiers = <<"BasicInteractive">>
    /\ pc = "read"
    /\ caps.SupportsRaw
    /\ ~caps.SupportsANSI

\* C6: with two or more profiles and no TTY on standard input, redirected
\* standard output or any set CI marker variable makes the call return the
\* first profile without reading input; otherwise it goes on to
\* NumberedFallback.
C6_HeadlessSelectsFirst ==
    (entry = "selectEnvironmentWithArrows" /\ Count >= 2 /\ ~stdinIsTerminal
        /\ stdoutStat # "unread") =>
        IF stdoutStat = "file" \/ \E v \in CINames : environ[v] # ""
        THEN /\ pc = "returned"
             /\ result = [kind |-> "profile", env |-> callerList[1], err |-> ""]
             /\ ~keyRead
             /\ lineReads = 0
        ELSE pc = "numbered" \/ tier = "NumberedFallback"

NumberedErrors ==
    { "failed to display menu", "failed to display environment option",
      "environment selection failed: failed to display prompt",
      "environment selection failed: failed to read input",
      "invalid selection - must be a number",
      "invalid selection - must be between 1 and count" }

C7_Downgrade ==
    /\ (lastInput.kind = "error" /\ lineReads = 0) =>
          \/ pc = "numbered" /\ tier \in Interactive /\ result = NoResult
          \/ tier = "NumberedFallback" /\ pc \in {"line", "returned"}
    /\ (keyRead /\ tier = "NumberedFallback") =>
          /\ Len(tiers) >= 2
          /\ tiers[Len(tiers) - 1] \in Interactive
    /\ (keyRead /\ tier = "NumberedFallback" /\ pc = "returned") =>
          /\ result.kind \in {"profile", "error"}
          /\ result.kind = "error" => result.err \in NumberedErrors
          /\ result.kind = "profile" => lastInput.kind = "line"
          /\ lastInput.kind = "line" =>
                result = ValidateChoice(TrimSpace(Append(lastInput.bytes, "\n")), callerList)

C7_ErrorStep ==
    /\ (pc = "read" /\ lastInput'.kind = "error") =>
          (pc' = "numbered" /\ result' = NoResult /\ tiers' = tiers)
    /\ (pc = "numbered" /\ keyRead) => tiers' = Append(tiers, "NumberedFallback")

\* C7: a read error inside a tier 1-2 loop is not returned: the call goes on
\* in NumberedFallback (from FullInteractive without passing through
\* BasicInteractive) and returns what NumberedFallback produces, an error
\* only if that tier fails too.
C7_ReadErrorDowngrades == []C7_Downgrade /\ [][C7_ErrorStep]_vars

C7_Witness ==
    /\ pc = "returned"
    /\ tiers = <<"FullInteractive", "NumberedFallback">>
    /\ keyRead
    /\ lastInput = [kind |-> "line", bytes |-> <<"x">>]
    /\ result.err = "invalid selection - must be a number"

\* Capability rank of the three tiers a call moves through; the headless
\* path is the dispatch for a missing TTY and precedes them.
Rank(t) ==
    CASE t = "FullInteractive" -> 1
      [] t = "BasicInteractive" -> 2
      [] t = "NumberedFallback" -> 3
      [] OTHER -> 0

C8_Descending ==
    \A i \in 1..Len(tiers), j \in 1..Len(tiers) : i < j => Rank(tiers[i]) < Rank(tiers[j])

C8_LoopExit ==
    /\ (pc \in {"render", "read"} /\ pc' \notin {"render", "read"}) =>
          \/ pc' = "returned"
          \/ pc = "read" /\ lastInput'.kind = "error" /\ pc' = "numbered"
    /\ pc = "numbered" => tier' = "NumberedFallback"
    /\ (tier = "NumberedFallback" /\ pc' # "idle") => tier' = "NumberedFallback"

\* C8: within one call the tiers entered are strictly descending in
\* capability (full, basic, numbered), nothing interactive follows
\* NumberedFallback, and a running interactive loop is left only by
\* returning or by the read-error downgrade to NumberedFallback.
C8_OneWayDowngrade == []C8_Descending /\ [][C8_LoopExit]_vars

C8_Witness ==
    /\ tiers = <<"FullInteractive", "BasicInteractive", "NumberedFallback">>
    /\ pc = "line"

C9_Outcome ==
    IF lastInput.kind = "error"
    THEN result = [kind |-> "error", env |-> "",
                   err |-> "environment selection failed: failed to read input"]
    ELSE LET a == Atoi(TrimSpace(Append(lastInput.bytes, "\n")))
         IN  IF a.ok /\ a.value >= 1 /\ a.value <= Count
             THEN result = [kind |-> "profile", env |-> callerList[a.value], err |-> ""]
             ELSE /\ result.kind = "error"
                  /\ result.err \in {"invalid selection - must be a number",
                                     "invalid selection - must be between 1 and count"}

\* C9 as claimed: NumberedFallback with two or more profiles prompts once
\* and reads exactly one line, returning the profile numbered by a line that
\* parses to k in 1..count and an error otherwise.
C9_ReadsExactlyOneLine ==
    (tier = "NumberedFallback" /\ Count >= 2 /\ pc = "returned") =>
        (prompts = 1 /\ lineReads = 1 /\ C9_Outcome)

\* C9 as amended: NumberedFallback with two or more profiles prompts at
\* most once and reads at most one line; it reads none only when writing the
\* menu, a list line or the prompt failed, which is returned as an error;
\* after its one read it returns the profile numbered by a line that parses
\* to k in 1..count and an error otherwise.
C9_SinglePromptNoRetry ==
    /\ prompts <= 1
    /\ lineReads <= prompts
    /\ (tier = "NumberedFallback" /\ Count >= 2 /\ pc = "returned") =>
          \/ /\ lineReads = 0
             /\ result.kind = "error"
             /\ result.err \in {"failed to display menu",
                                "failed to display environment option",
                                "environment selection failed: failed to display prompt"}
          \/ /\ lineReads = 1
             /\ prompts = 1
             /\ C9_Outcome

C9_Witness ==
    /\ pc = "returned"
    /\ tier = "NumberedFallback"
    /\ lastInput = [kind |-> "line", bytes |-> <<" ", "2">>]
    /\ result = [kind |-> "profile", env |-> "staging", err |-> ""]

C10_Returned ==
    (Len(callerList) = 1 /\ pc # "idle") =>
        /\ pc = "returned"
        /\ result = [kind |-> "profile", env |-> callerList[1], err |-> ""]
        /\ termState = NoTermState
        /\ ~keyRead
        /\ lineReads = 0
        /\ prompts = 0
        /\ out \cap MenuOutput = {}
        /\ out = IF entry = "fallbackToNumberedSelection" THEN {"notice"} ELSE {}
        /\ \A i \in 1..Len(tiers) : tiers[i] \notin Interactive

C10_Step ==
    (Len(environments) = 1 /\ pc = "idle") =>
        /\ termMode' = termMode
        /\ globalDisplayState' = globalDisplayState

\* C10: for a one-element list the call returns that element with no error
\* from either entry point and under every capability combination, without
\* acquiring raw mode, writing menu output or reading input.
C10_SingleProfileShortCircuit == []C10_Returned /\ [][C10_Step]_vars

C10_Witness ==
    /\ pc = "returned"
    /\ entry = "selectEnvironmentWithArrows"
    /\ stdinIsTerminal
    /\ termType = <<"x","t","e","r","m">>
    /\ callerList = <<"dev">>
    /\ result.env = "dev"

C11_Returned ==
    (Len(callerList) = 0 /\ pc # "idle") =>
        /\ pc = "returned"
        /\ result = [kind |-> "error", env |-> "", err |-> "no environments configured"]
        /\ termState = NoTermState
        /\ ~keyRead
        /\ lineReads = 0
        /\ prompts = 0
        /\ out \cap MenuOutput = {}
        /\ \A i \in 1..Len(tiers) : tiers[i] \notin Interactive

C11_NoEmptyLoop ==
    pc \in {"full", "basic", "render", "read", "line"} => Len(environments) >= 2

C11_Step ==
    (Len(environments) = 0 /\ pc = "idle") =>
        /\ termMode' = termMode
        /\ globalDisplayState' = globalDisplayState

\* C11: for an empty list the call returns the "no environments configured"
\* error from either entry point and under every capability combination,
\* without acquiring raw mode, rendering or reading; no tier loop ever runs
\* with an empty list.
C11_EmptyListError == [](C11_Returned /\ C11_NoEmptyLoop) /\ [][C11_Step]_vars

C11_Witness ==
    /\ pc = "returned"
    /\ entry = "fallbackToNumberedSelection"
    /\ callerList = <<>>
    /\ stdinIsTerminal
    /\ result.err = "no environments configured"

\* The classification of the chunk the loop read last.
LastKey == parseKeyInput(lastInput.bytes)

\* C12: a one-byte chunk LF or CR classifies as confirm, Escape and Ctrl-C as
\* themselves (cancel), any other single byte as that character with no
\* arrow; Esc [ A/B/C/D classify as up/down/right/left with no character; an
\* empty chunk classifies as an error.
C12_KeyClassification ==
    lastInput.kind = "chunk" =>
        LET b == lastInput.bytes
        IN  /\ b = <<>> => LastKey.err
            /\ Len(b) = 1 =>
                  /\ ~LastKey.err
                  /\ LastKey.arrow = "ArrowNone"
                  /\ LastKey.char = IF b[1] = KeyLF \/ b[1] = KeyCR THEN KeyLF ELSE b[1]
            /\ b = <<KeyEsc, KeyBracket, KeyA>> =>
                  LastKey = [arrow |-> "ArrowUp", char |-> 0, err |-> FALSE]
            /\ b = <<KeyEsc, KeyBracket, KeyB>> =>
                  LastKey = [arrow |-> "ArrowDown", char |-> 0, err |-> FALSE]
            /\ b = <<KeyEsc, KeyBracket, KeyC>> =>
                  LastKey = [arrow |-> "ArrowRight", char |-> 0, err |-> FALSE]
            /\ b = <<KeyEsc, KeyBracket, KeyD>> =>
                  LastKey = [arrow |-> "ArrowLeft", char |-> 0, err |-> FALSE]

C12_Witness ==
    /\ pc = "returned"
    /\ lastInput = [kind |-> "chunk", bytes |-> <<KeyCR>>]
    /\ LastKey.char = KeyLF
    /\ result.kind = "profile"

ArrowChunks == { <<KeyEsc, KeyBracket, c>> : c \in {KeyA, KeyB, KeyC, KeyD} }

C13_Unrecognized ==
    (lastInput.kind = "chunk" /\ Len(lastInput.bytes) >= 2
        /\ lastInput.bytes \notin ArrowChunks) =>
        /\ LastKey = [arrow |-> "ArrowNone", char |-> 0, err |-> TRUE]
        /\ pc = "render"

C13_Step ==
    (pc = "read" /\ lastInput'.kind = "chunk" /\ Len(lastInput'.bytes) >= 2
        /\ lastInput'.bytes \notin ArrowChunks) =>
        /\ selectedIndex' = selectedIndex
        /\ pc' = "render"

\* C13: every chunk of two or more bytes other than the four three-byte
\* arrow sequences classifies as unrecognized, and in the loop leaves
\* selectedIndex alone and the call running.
C13_MultiByteFailsClosed == []C13_Unrecognized /\ [][C13_Step]_vars

C14_AtMostOnce ==
    /\ restoreCalls <= 1
    /\ restoreCalls = 1 <=> termState.restored
    /\ termState.oldState = "nil" =>
          (restoreCalls = 0 /\ result = NoResult /\ ~warned)

C14_Release ==
    (TerminalStateRestore \/ TerminalStateEnsureRestore) =>
        IF termState.restored \/ termState.oldState = "nil"
        THEN /\ termState' = termState
             /\ termMode' = termMode
             /\ restoreCalls' = restoreCalls
             /\ warned' = warned
             /\ TerminalStateRestore => result' = NoResult
        ELSE /\ termState' = [termState EXCEPT !.restored = TRUE]
             /\ restoreCalls' = restoreCalls + 1

\* C14: over any number of release calls on one handle term.Restore is
\* called at most once: the first release of an acquired handle restores and
\* sets restored; every later release, and every release of a handle whose
\* acquisition failed, changes nothing, restores nothing and reports no error.
C14_RestoreIdempotent == []C14_AtMostOnce /\ [][C14_Release]_vars

C14_Witness ==
    /\ pc = "handle_released_again"
    /\ termState = [oldState |-> "cooked", restored |-> TRUE]
    /\ termMode = "raw"
    /\ restoreCalls = 1
    /\ result = NoResult

C15_Warned ==
    warned =>
        /\ pc = "returned"
        /\ termState.restored
        /\ result.kind \in {"profile", "error", "panic"}
        /\ result.kind = "error" => result.err \in NumberedErrors \cup {"selection cancelled"}

C15_Return ==
    (deferred /\ pc # "returned" /\ pc' = "returned") =>
        /\ pc = "read" =>
              result' = KeyOutcome(parseKeyInput(lastInput'.bytes), selectedIndex, environments)
        /\ (pc = "line" /\ lastInput'.kind = "line") =>
              result' = ValidateChoice(TrimSpace(Append(lastInput'.bytes, "\n")), environments)
        /\ (pc = "line" /\ lastInput'.kind = "error") =>
              result' = [kind |-> "error", env |-> "",
                         err |-> "environment selection failed: failed to read input"]
        /\ pc = "numbered" => (result'.kind = "error" /\ result'.err \in NumberedErrors)
        /\ pc = "render" => result'.kind = "panic"

\* C15: when term.Restore fails as a tier 1-2 call ends, the call returns the
\* result fixed by the key or line it read (profile, cancellation or the
\* fallback's outcome), the same whether or not the restore failed; the
\* failure shows only as the warning on standard error.
C15_RestoreFailureKeepsResult == []C15_Warned /\ [][C15_Return]_vars

C15_Witness ==
    /\ pc = "returned"
    /\ warned
    /\ termState = [oldState |-> "cooked", restored |-> TRUE]
    /\ termMode = "raw"
    /\ tiers = <<"FullInteractive">>
    /\ result = [kind |-> "profile", env |-> "staging", err |-> ""]

\* floor(pp/100 * n), stated by its bounds.
FloorPercent(pp, n) == CHOOSE k \in 0..n : 100 * k <= pp * n /\ pp * n < 100 * (k + 1)

AtLeast(x, floor) == IF x < floor THEN floor ELSE x

\* C16: for every width >= 1 the layout has contentWidth = max(width - (4 if
\* width < 40 else 8), 20), truncationLimit = max(contentWidth - 10, 10), and
\* the columns are the floors of 40%, 45% and 15% of contentWidth, raised to
\* 8, 10 and 6; width 80 gives 72/62 and 28/32/10, width 15 gives 20/10.
C16_LayoutFormulas ==
    (formatter.alloc /\ formatter.Width >= 1) =>
        LET w == formatter.Width
            cw == formatter.ContentWidth
        IN  /\ cw = AtLeast(w - (IF w < 40 THEN 4 ELSE 8), 20)
            /\ cw >= 20
            /\ formatter.TruncationLimit = AtLeast(cw - 10, 10)
            /\ formatter.TruncationLimit >= 10
            /\ formatter.nameWidth = AtLeast(FloorPercent(40, cw), 8)
            /\ formatter.urlWidth = AtLeast(FloorPercent(45, cw), 10)
            /\ formatter.modelWidth = AtLeast(FloorPercent(15, cw), 6)
            /\ formatter.nameWidth >= 8 /\ formatter.urlWidth >= 10 /\ formatter.modelWidth >= 6
            /\ w = 80 => /\ cw = 72 /\ formatter.TruncationLimit = 62
                         /\ formatter.nameWidth = 28 /\ formatter.urlWidth = 32
                         /\ formatter.modelWidth = 10
            /\ w = 15 => cw = 20 /\ formatter.TruncationLimit = 10

C16_Witness ==
    /\ formatter.alloc
    /\ formatter.Width = 30
    /\ formatter.ContentWidth = 26
    /\ formatter.TruncationLimit = 16
    /\ formatter.nameWidth = 10
    /\ formatter.urlWidth = 11
    /\ formatter.modelWidth = 6

\* The column width the truncator applied last works to.
ColumnWidth ==
    CASE formatted.fn = "name" -> formatter.nameWidth
      [] formatted.fn = "url" -> formatter.urlWidth
      [] formatted.fn = "model" -> formatter.modelWidth
      [] OTHER -> 0

Truncators == {"name", "url", "model"}

\* C17: for every text, the empty one included, and every column width the
\* formatter produces, the name, URL and model truncators return a text no
\* longer than the column.
C17_TruncatedFits ==
    formatted.fn \in Truncators => Len(formatted.result) <= ColumnWidth

\* C18 as claimed: each truncator returns a text no longer than the column
\* unchanged, with wasTruncated = false.
C18_FittingUnchanged ==
    (formatted.fn \in Truncators /\ Len(formatted.text) <= ColumnWidth) =>
        (formatted.result = formatted.text /\ ~formatted.truncated)

\* C18 as amended: each truncator returns a text no longer than the column
\* unchanged, with wasTruncated = false, except that the model truncator
\* returns "default" for the empty model, also with wasTruncated = false.
C18_FittingUnchangedButEmptyModel ==
    (formatted.fn \in Truncators /\ Len(formatted.text) <= ColumnWidth) =>
        /\ ~formatted.truncated
        /\ formatted.result =
              IF formatted.fn = "model" /\ formatted.text = <<>>
              THEN <<"d", "e", "f", "a", "u", "l", "t">>
              ELSE formatted.text

C18_Witness ==
    /\ formatted.fn = "name"
    /\ Len(formatted.text) = formatter.nameWidth
    /\ formatted.result = formatted.text
    /\ ~formatted.truncated

\* C19: for every width >= 1, every prefix the tiers use and every profile,
\* the composed menu line is no longer than the layout's width, on the
\* normal path and on the minimal path taken when width - len(prefix) - 6 < 20.
C19_LineFitsWidth ==
    (formatted.fn = "line" /\ formatter.Width >= 1) =>
        Len(formatted.result) <= formatter.Width

\* C20: every capabilities value the probe returns has width > 0, height > 0
\* and supportsCursor = supportsANSI, whatever the TTY, raw-mode and size
\* queries answer; the size is 80 x 24 when standard input is not a TTY.
C20_ProbeDefaults ==
    formatter.alloc =>
        /\ caps.Width > 0
        /\ caps.Height > 0
        /\ caps.SupportsCursor = caps.SupportsANSI
        /\ ~caps.IsTerminal => (caps.Width = DefaultWidth /\ caps.Height = DefaultHeight)

C21_ProbeStep ==
    selectEnvironmentWithArrows => termMode' = termMode

\* C21: after the probe returns the terminal is in the mode it was in
\* before, whether entering raw mode failed, entering and leaving both
\* succeeded, or leaving failed; without a TTY the mode is not touched.
C21_ProbeKeepsMode == [][C21_ProbeStep]_vars

\* Two line lists differ in length or in some element.
LinesDiffer(a, b) ==
    \/ Len(a) # Len(b)
    \/ \E i \in 1..Len(a) : a[i] # b[i]

C22_FlagsExclusive ==
    ~(globalDisplayState.contentChanged /\ globalDisplayState.selectionChanged)

C22_UpdateStep ==
    lastInput'.kind = "update" =>
        LET old == globalDisplayState
            new == globalDisplayState'
        IN  /\ new.contentChanged <=> LinesDiffer(lastInput'.lines, old.currentLines)
            /\ new.selectionChanged <=>
                   (lastInput'.selection # old.currentSelection /\ ~new.contentChanged)
            /\ new.currentLines = lastInput'.lines
            /\ new.currentSelection = lastInput'.selection
            /\ new.lastSelection = old.currentSelection

\* C22: after an update of an initialized display state, contentChanged says
\* whether the new lines differ from the stored ones in length or in an
\* element, selectionChanged says whether the index moved while the content
\* stayed, the two are never both set, and the new lines and index are stored
\* with the previous index kept as lastSelection.
C22_UpdateContract == []C22_FlagsExclusive /\ [][C22_UpdateStep]_vars

C22_Witness ==
    /\ lastInput.kind = "update"
    /\ globalDisplayState.selectionChanged
    /\ ~globalDisplayState.contentChanged
    /\ globalDisplayState.currentLines # <<>>
    /\ globalDisplayState.lastSelection # globalDisplayState.currentSelection

\* The first render of a session: the loop has not read a key yet.
FirstRender == pc = "render" /\ ~keyRead

C23_Cleared ==
    (pc \in {"idle", "full", "basic", "returned"} \/ FirstRender) =>
        /\ globalDisplayState = NilDisplayState
        /\ globalLineRenderer = NilLineRenderer

C23_FirstRenderStep ==
    (FirstRender /\ pc' = "read") =>
        /\ globalDisplayState'.contentChanged
        /\ written'.clears >= 1
        /\ written'.lines = Count + 1
        /\ globalDisplayState'.currentLines[1][1] =
               (IF tier = "FullInteractive" THEN "full header" ELSE "basic header")
        /\ globalLineRenderer'.useANSI = (tier = "FullInteractive")
        /\ globalDisplayState'.currentLines[selectedIndex + 2][1] =
               (IF tier = "FullInteractive" THEN "> " ELSE "* ")

\* C23: whenever a selection call has returned, whichever way its
\* interactive session ended, both process-wide render objects are gone; so
\* the first render of every session, also of a later one in the same
\* process, starts from nothing, repaints everything and marks the selected
\* line in the style of its own tier.
C23_RenderStateCleared == []C23_Cleared /\ [][C23_FirstRenderStep]_vars

\* A later session about to render for the first time, after an earlier
\* session of the same process has painted a menu.
C23_Witness ==
    /\ FirstRender
    /\ tier = "BasicInteractive"
    /\ written.lines > 0
    /\ globalDisplayState = NilDisplayState

UniqueNames(envs) ==
    \A i, j \in 1..Len(envs) : i # j => envs[i].Name # envs[j].Name

HasName(envs, name) == \E i \in 1..Len(envs) : envs[i].Name = name

\* envs without the environments called name, the others in their order.
Without(envs, name) == SelectSeq(envs, LAMBDA e : e.Name # name)

C24_AddStep ==
    lastInput'.kind = "add" =>
        LET env == lastInput'.env
            rejected == validateEnvironment(env) # "" \/ HasName(config, env.Name)
        IN  /\ rejected => configErr' # "" /\ config' = config
            /\ ~rejected => configErr' = "" /\ config' = Append(config, env)

C24_RemoveStep ==
    lastInput'.kind = "remove" =>
        LET name == lastInput'.name
        IN  /\ ~HasName(config, name) => configErr' # "" /\ config' = config
            /\ HasName(config, name) =>
                   /\ configErr' = ""
                   /\ Len(config') = Len(config) - 1
                   /\ config' = Without(config, name)

\* C24: a configuration that starts with unique names keeps them unique under
\* every sequence of adds and removes; an invalid or already present
\* environment is refused without a change, an absent name is refused without
\* a change, and a remove takes out exactly the named environment and leaves
\* the others in their order.
C24_NamesStayUnique ==
    []UniqueNames(config) /\ [][C24_AddStep /\ C24_RemoveStep]_vars

\* An environment of a list of three has been removed by name.
C24_Witness ==
    /\ lastInput.kind = "remove"
    /\ configErr = ""
    /\ Len(config) = 2
    /\ UniqueNames(config)

\* A step that is one render cycle, of a session or of a renderer on its own.
RenderCycle ==
    \/ lastInput'.kind = "render"
    \/ pc = "render" /\ pc' = "read"

C25_RenderStep ==
    RenderCycle =>
        LET flagged == \/ globalDisplayState'.contentChanged
                       \/ globalDisplayState'.selectionChanged
        IN  /\ flagged => /\ written'.clears >= 1
                          /\ written'.lines = Len(globalDisplayState'.currentLines)
            /\ ~flagged => written' = NoWritten

\* C25: a render cycle clears the screen and prints every stored line when
\* contentChanged is set and also when only selectionChanged is set; when
\* neither is set it writes nothing.
C25_RepaintOnEitherFlag == [][C25_RenderStep]_vars

\* A cycle in which only the selection index moved has repainted in full.
C25_Witness ==
    /\ lastInput.kind = "render"
    /\ globalDisplayState.selectionChanged
    /\ ~globalDisplayState.contentChanged
    /\ written.clears = 1
    /\ written.lines > 0

\* A step in which a tier 1-2 function failed to enter raw mode.
AcquisitionFailed == pc \in {"full", "basic"} /\ pc' # "render"

C26_FailureStep ==
    AcquisitionFailed =>
        /\ pc' = (IF pc = "full" THEN "basic" ELSE "numbered")
        /\ result' = NoResult
        /\ UNCHANGED <<out, written, keyRead, lineReads, restoreCalls, termState, deferred,
                       warned, globalDisplayState, globalLineRenderer>>

C26_NextTierStep ==
    /\ pc = "basic" => tier' = "BasicInteractive"
    /\ pc = "numbered" => tier' = "NumberedFallback"

\* The call came down to the numbered menu through failed acquisitions only.
AcquisitionsFailedOnly ==
    /\ Len(tiers) >= 2
    /\ tiers[1] \in Interactive
    /\ tiers[Len(tiers)] = "NumberedFallback"
    /\ ~keyRead

C26_NoTrace ==
    AcquisitionsFailedOnly =>
        /\ "menu" \notin out
        /\ restoreCalls = 0
        /\ ~warned
        /\ termState = NoTermState
        /\ pc = "returned" =>
               \/ result.kind = "profile"
               \/ result.kind = "error" /\ result.err \in NumberedErrors

\* C26: when a tier fails to enter raw mode the call goes on with the next
\* tier (FullInteractive to BasicInteractive, BasicInteractive to
\* NumberedFallback) and returns only what that tier returns; the tier that
\* failed has painted no menu, read no key and issued no restore.
C26_AcquisitionFailureFallsThrough ==
    []C26_NoTrace /\ [][C26_FailureStep /\ C26_NextTierStep]_vars

\* Both interactive tiers failed to enter raw mode and the numbered menu
\* returned a profile.
C26_Witness ==
    /\ pc = "returned"
    /\ tiers = <<"FullInteractive", "BasicInteractive", "NumberedFallback">>
    /\ ~keyRead
    /\ result.kind = "profile"

\* C27: when the numbered menu runs after a read error of a tier 1-2
\* session and is about to read its line, the session's raw mode has been
\* given back and the render state has been cleared.
C27_RestoredBeforeNumbered ==
    (tier = "NumberedFallback" /\ pc = "line" /\ keyRead) =>
        /\ ~deferred
        /\ termState.restored
        /\ globalDisplayState = NilDisplayState

C28_RawAtRead ==
    pc = "read" =>
        /\ termMode = "raw"
        /\ termState.oldState \in Modes
        /\ ~termState.restored

C28_RenderStep ==
    (pc = "render" /\ pc' = "read") =>
        /\ termMode = "raw"
        /\ termMode' = termMode
        /\ termState' = termState
        /\ restoreCalls' = restoreCalls

\* C28: whenever the loop of a tier 1-2 session blocks in its read the
\* terminal is raw: the probes of a render cycle leave the raw mode they
\* found, also when the session saved a cooked mode, and leave the session's
\* saved state as it was.
C28_RawAtEveryRead == []C28_RawAtRead /\ [][C28_RenderStep]_vars

\* A session that saved a cooked mode blocks in its read again, after a
\* second render cycle with its probes.
C28_Witness ==
    /\ pc = "read"
    /\ keyRead
    /\ stdinIsTerminal
    /\ termState.oldState = "cooked"
    /\ termMode = "raw"

\* The loop is about to render after an up or down key.
AfterUpOrDown ==
    /\ pc = "render"
    /\ lastInput.kind = "chunk"
    /\ ~LastKey.err
    /\ LastKey.arrow \in {"ArrowUp", "ArrowDown"}

C29_NoSelectionOnly == ~globalDisplayState.selectionChanged

C29_ArrowRenderStep ==
    (AfterUpOrDown /\ pc' = "read") =>
        /\ Count >= 2
        /\ globalDisplayState.currentSelection # selectedIndex
        /\ globalDisplayState'.currentSelection = selectedIndex
        /\ globalDisplayState'.contentChanged
        /\ written'.clears = 1
        /\ written'.lines = Count + 1

\* C29: in a tier 1-2 session the render that follows an up or down key
\* finds the lines changed (the marker moved), so contentChanged is set and
\* the menu is repainted through the content path; selectionChanged is never
\* set in any render cycle of a selection call.
C29_MarkerChangesContent == []C29_NoSelectionOnly /\ [][C29_ArrowRenderStep]_vars

\* The menu has been repainted after an arrow key moved the selection.
C29_Witness ==
    /\ pc = "read"
    /\ lastInput.kind = "chunk"
    /\ LastKey.arrow \in {"ArrowUp", "ArrowDown"}
    /\ globalDisplayState.lastSelection # globalDisplayState.currentSelection
    /\ globalDisplayState.contentChanged
    /\ globalDisplayState.lastSelection >= 0

C30_LoopStep ==
    (pc = "read" /\ pc' = "render") =>
        /\ lastInput'.kind = "chunk"
        /\ lastInput'.bytes \notin (ConfirmChunks \cup CancelChunks)

C30_DowngradeStep ==
    /\ (pc = "read" /\ lastInput'.kind = "error") => pc' = "numbered"
    /\ pc = "numbered" => pc' \in {"line", "returned"}
    /\ pc = "line" => pc' = "returned" /\ lineReads' = lineReads + 1

\* The call has returned and its latest read, after a key read, failed.
EndOfInput == pc = "returned" /\ keyRead /\ lastInput.kind = "error"

C30_ErrorReturned ==
    EndOfInput =>
        /\ tiers[Len(tiers)] = "NumberedFallback"
        /\ result.kind = "error"
        /\ lineReads <= 1
        /\ lineReads = 1 => result.err = "environment selection failed: failed to read input"

C30_Terminates == (pc = "numbered" /\ keyRead) ~> (pc = "returned")

\* C30: a failed key read of a tier 1-2 session leads to the numbered menu
\* and from there, without a way back into the loop, to the return of the
\* call; when the menu's single line read fails as well, that failure is the
\* error returned.  The loop goes round again only after a read that
\* delivered bytes which are neither a confirm nor a cancel key.
C30_EndOfInputTerminates ==
    /\ []C30_ErrorReturned
    /\ [][C30_LoopStep /\ C30_DowngradeStep]_vars
    /\ C30_Terminates

\* Both the key read and the line read failed and the call returned the
\* line read's error.
C30_Witness ==
    /\ EndOfInput
    /\ tiers[1] \in Interactive
    /\ lineReads = 1
    /\ result = Failed("environment selection failed: failed to read input")
====
